---------------------------- MODULE Spec2Model ----------------------------
(***************************************************************************)
(* Verification model of the quake-rs simulation core:                     *)
(*   - WorldServer (crates/quake-world/src/world.rs): execution state,     *)
(*     connection table, entity store, tick and snapshot;                  *)
(*   - DemPlayback and the demo replay systems                             *)
(*     (crates/quake-world/src/system.rs);                                 *)
(*   - Console (crates/quake-console/src/console.rs, command.rs);          *)
(*   - ShardedUniverse / Universe (crates/quake-world/src/universe.rs);    *)
(*   - the QUIC message channel (crates/quake-network/src/quic.rs);        *)
(*   - WorldClient, the client's mirror of a world (world.rs);             *)
(*   - the PlayerId and WorldId generators (world.rs);                     *)
(*   - AssetManager and Pak (crates/quake-asset/src/lib.rs, pak/mod.rs)    *)
(*     and the vector, MDL, DEM and BSP decoders (pak/*.rs).               *)
(*                                                                         *)
(* Durations and instants are integers in nanoseconds.  An Option<T> is a  *)
(* sequence: <<>> is None and <<x>> is Some(x).                            *)
(***************************************************************************)
EXTENDS Integers, Sequences, FiniteSets, TLC

VARIABLES
    world,                  \* the WorldServer under test
    now,                    \* the monotonic clock read by Instant::now()
    PLAYER_ID_GENERATOR,    \* process-wide AtomicU64 of PlayerId::new
    minted_for,             \* history: player id -> connection whose on_join minted it
    last_step,              \* history: Some(record of the latest step() call) until the next call
    loads,                  \* number of load()/unload() calls made so far (bounded)
    tick_log,               \* history: the clock origin of the next tick and the time the
                            \*   world has spent Stopped since then
    playback,               \* a stand-alone DemPlayback object
    total_advanced,         \* history: sum of the dt handed to playback.advance so far
    emitted,                \* history: stream index -> times placed in the due queue
    advances,               \* number of advance() calls made so far (bounded)
    console,                \* the Console object
    pc,                     \* position of the thread inside Console::execute
    trace,                  \* history: the dispatches of the current or latest execute(),
                            \*   kept in windows of MaxTrace dispatches
    entry_buffer,           \* history: the queue as the current or latest execute() found it
    left,                   \* history: Some(queue the previous execute() left when suspended)
    scripts,                \* number of scripts handed to the console so far (bounded)
    WORLD_ID_GENERATOR,     \* process-wide AtomicU64 of WorldId::new
    router,                 \* position of the router thread inside UniverseServer::step
    universe_queue,         \* shard -> messages in its inbound channel
    world_queue,            \* shard -> messages in its outbound channel
    world_servers,          \* shard -> the worlds its Universe holds
    worker,                 \* shard -> "running" or "panicked"
    routed,                 \* history: the messages in the order the router sent them
    observed,               \* history: shard -> the messages its worker received, in order
    send_buffer,            \* the sender's unbounded channel (QuicClientSender::send_buffer)
    send_tasks,             \* the spawned serialize_and_send_message tasks not yet finished
    recv_buffer,            \* the peer's unbounded channel (QuicServerReceiver::recv_buffer)
    sent_order,             \* history: the messages in the order send_message was called
    recv_order,             \* history: the messages in the order try_recv_message returned them
    client,                 \* the WorldClient object
    inbox,                  \* the messages its network_manager.try_recv_message will return
    outbox,                 \* the messages it handed to network_manager.send_message
                            \*   that the sender task has not taken yet
    last_call,              \* history: Some(record of the latest call on the WorldClient)
                            \*   until a message arrives or leaves
    issued,                 \* history: the identifiers the generators returned, in order
    base_dir,               \* the overlay directory of the AssetManager: name -> entry
    archives,               \* AssetManager.archives[0].archives: the PakArchives, in order
    last_read,              \* history: Some(record of the latest by_name call)
    decoded,                \* history: Some(record of the latest decoder call)
    evaluated               \* history: Some(record of the latest Bindings::evaluate call)

worldVars == <<world, now, PLAYER_ID_GENERATOR, minted_for, last_step, loads, tick_log>>
demVars == <<playback, total_advanced, emitted, advances>>
consoleVars == <<console, pc, trace, entry_buffer, left, scripts>>
shardVars == <<WORLD_ID_GENERATOR, router, universe_queue, world_queue, world_servers,
               worker, routed, observed>>

netVars == <<send_buffer, send_tasks, recv_buffer, sent_order, recv_order>>

clientVars == <<client, inbox, outbox, last_call>>

idVars == <<issued>>

assetVars == <<base_dir, archives, last_read, decoded>>

inputVars == <<evaluated>>

vars == <<worldVars, demVars, consoleVars, shardVars, netVars, clientVars, idVars, assetVars,
          inputVars>>

notWorld == <<demVars, consoleVars, shardVars, netVars, clientVars, idVars, assetVars,
               inputVars>>
notDem == <<worldVars, consoleVars, shardVars, netVars, clientVars, idVars, assetVars,
             inputVars>>
notConsole == <<worldVars, demVars, shardVars, netVars, clientVars, idVars, assetVars,
                 inputVars>>
\* The shard workers read the clock and mint player ids.
notShard == <<world, minted_for, last_step, loads, tick_log, demVars, consoleVars, netVars,
              clientVars, idVars, assetVars, inputVars>>
notNet == <<worldVars, demVars, consoleVars, shardVars, clientVars, idVars, assetVars,
             inputVars>>
notClient == <<worldVars, demVars, consoleVars, shardVars, netVars, idVars, assetVars,
                inputVars>>
\* The generators are the counters of the world and of the shard router.
notIds == <<world, now, minted_for, last_step, loads, tick_log, demVars, consoleVars, router,
            universe_queue, world_queue, world_servers, worker, routed, observed, netVars,
            clientVars, assetVars, inputVars>>
notAsset == <<worldVars, demVars, consoleVars, shardVars, netVars, clientVars, idVars,
              inputVars>>
notInput == <<worldVars, demVars, consoleVars, shardVars, netVars, clientVars, idVars,
              assetVars>>

(***************************************************************************)
(* Bounds of the model.                                                    *)
(***************************************************************************)
MaxJoins == 2
MaxLoads == 1
MaxClock == 4
MaxAdvances == 4
MaxScripts == 2
MaxMessages == 3
MaxWorlds == 3
MaxSends == 3
MaxBacklog == 2
MaxInbox == 2
MaxTrace == 16
MaxOutbox == 1
MaxIds == 4
MaxReplayClock == 6

(***************************************************************************)
(* Program constants.                                                      *)
(***************************************************************************)
Ms == 1000 * 1000
TickFloor == 100 * Ms

None == <<>>
Some(x) == <<x>>
IsSome(o) == o # <<>>
Unwrap(o) == o[1]

ConnectionIds == {1, 2}
PlayerIds == 0..MaxJoins

EmptyMap == [x \in {} |-> 0]
MapInsert(m, k, v) == [x \in (DOMAIN m) \cup {k} |-> IF x = k THEN v ELSE m[x]]
MapRemove(m, k) == [x \in (DOMAIN m) \ {k} |-> m[x]]

(***************************************************************************)
(* Demo events (quake_asset::pak::dem::DemEvent).  A Time event carries an *)
(* f32 number of seconds; the model writes it in milliseconds and          *)
(* FromSecsF32 gives the Duration that Duration::from_secs_f32 returns for *)
(* the nearest f32: 0.1f32 is 0.100000001490116..., that is 100000001 ns.  *)
(***************************************************************************)
ServerInfo(map) == [type |-> "ServerInfo", map_path |-> map]
Time(ms) == [type |-> "Time", time |-> ms]
SpawnBaseline(e, o) == [type |-> "SpawnBaseline", entity_id |-> e, origin |-> o]
UpdateEntity(e, o1, o2, o3) ==
    [type |-> "UpdateEntity", entity_id |-> e, origin1 |-> o1, origin2 |-> o2, origin3 |-> o3]
PlaySound(e, s) == [type |-> "PlaySound", entity_id |-> e, sound_id |-> s]
StopSound(e) == [type |-> "StopSound", entity_id |-> e]
SetAngle(a) == [type |-> "SetAngle", angles |-> a]
StuffText == [type |-> "StuffText"]

F32Excess(ms) == IF ms = 100 THEN 1 ELSE 0
FromSecsF32(ms) == ms * Ms + F32Excess(ms)

(***************************************************************************)
(* Dem::iter: every block contributes a synthetic SetAngle followed by its *)
(* opcodes, and the first element of the flattened stream is skipped.      *)
(***************************************************************************)
RECURSIVE FlattenBlocks(_)
FlattenBlocks(blocks) ==
    IF blocks = <<>> THEN <<>>
    ELSE <<SetAngle(Head(blocks).angles)>> \o Head(blocks).events \o FlattenBlocks(Tail(blocks))

DemIter(dem) ==
    LET all == FlattenBlocks(dem.blocks)
    IN  IF all = <<>> THEN <<>> ELSE Tail(all)

(***************************************************************************)
(* DemPlayback (system.rs).                                                *)
(***************************************************************************)
DemPlaybackNew(dem) ==
    [events |-> DemIter(dem), due_events |-> <<>>, due_index |-> <<>>,
     cursor |-> 0, duration |-> 0]

\* The while-let loop of advance: st = [cursor, due, idx]; events are
\* 1-indexed here, so events.get(cursor) is events[cursor + 1].
RECURSIVE AdvanceLoop(_, _, _)
AdvanceLoop(events, duration, st) ==
    IF st.cursor >= Len(events) THEN st
    ELSE LET event == events[st.cursor + 1]
         IN  IF event.type = "Time"
             THEN IF duration < FromSecsF32(event.time)
                  THEN st
                  ELSE AdvanceLoop(events, duration, [st EXCEPT !.cursor = @ + 1])
             ELSE AdvanceLoop(events, duration,
                              [cursor |-> st.cursor + 1,
                               due |-> Append(st.due, event),
                               idx |-> Append(st.idx, st.cursor + 1)])

\* A variant of advance that rewinds an exhausted stream instead of returning.
DemPlaybackAdvanceRewind(pb, delta_time) ==
    LET from == IF pb.cursor >= Len(pb.events) THEN 0 ELSE pb.cursor
        st == AdvanceLoop(pb.events, pb.duration,
                          [cursor |-> from, due |-> <<>>, idx |-> <<>>])
    IN  [pb EXCEPT !.due_events = st.due,
                   !.due_index = st.idx,
                   !.cursor = st.cursor,
                   !.duration = pb.duration + delta_time]

\* A variant of advance that leaves the playback time where it is.
DemPlaybackAdvanceFrozen(pb, delta_time) ==
    IF pb.cursor >= Len(pb.events)
    THEN [pb EXCEPT !.due_events = <<>>, !.due_index = <<>>]
    ELSE LET st == AdvanceLoop(pb.events, pb.duration,
                               [cursor |-> pb.cursor, due |-> <<>>, idx |-> <<>>])
         IN  [pb EXCEPT !.due_events = st.due,
                        !.due_index = st.idx,
                        !.cursor = st.cursor]

DemPlaybackAdvance(pb, delta_time) ==
    IF pb.cursor >= Len(pb.events)
    THEN [pb EXCEPT !.due_events = <<>>, !.due_index = <<>>]
    ELSE LET st == AdvanceLoop(pb.events, pb.duration,
                               [cursor |-> pb.cursor, due |-> <<>>, idx |-> <<>>])
         IN  [pb EXCEPT !.due_events = st.due,
                        !.due_index = st.idx,
                        !.cursor = st.cursor,
                        !.duration = pb.duration + delta_time]

(***************************************************************************)
(* Demo assets: what Dem::from_slice decodes for the demos of the model.   *)
(***************************************************************************)
Block(angles, events) == [angles |-> angles, events |-> events]
Zero3 == <<0, 0, 0>>

DemGated ==
    [blocks |-> << Block(Zero3, << SpawnBaseline(1, <<1, 2, 3>>), Time(100),
                                   SpawnBaseline(2, <<4, 5, 6>>), Time(500),
                                   SpawnBaseline(3, Zero3) >>) >>]
DemWorld ==
    [blocks |-> << Block(Zero3, << ServerInfo("maps/e1m1.bsp"), Time(0),
                                   SpawnBaseline(1, <<1, 2, 3>>),
                                   UpdateEntity(1, Some(7), None, None) >>),
                   Block(<<0, 90, 0>>, << Time(100), StopSound(1), PlaySound(1, 4),
                                          UpdateEntity(1, None, Some(8), None) >>) >>]
DemLate ==
    [blocks |-> << Block(Zero3, << Time(500), StuffText >>),
                   Block(Zero3, << Time(100), StopSound(2) >>) >>]
DemNoInfo ==
    [blocks |-> << Block(Zero3, << StuffText, ServerInfo("maps/e1m2.bsp") >>) >>]

\* Two baselines, then updates for an entity that exists, for an id that has
\* no entity, and for an entity spawned in the same batch.
DemUpdates ==
    [blocks |-> << Block(Zero3, << ServerInfo("maps/e1m1.bsp"),
                                   SpawnBaseline(1, <<1, 2, 3>>),
                                   SpawnBaseline(2, <<4, 5, 6>>), Time(100),
                                   UpdateEntity(2, None, Some(8), None),
                                   UpdateEntity(3, Some(9), Some(9), Some(9)),
                                   SpawnBaseline(4, Zero3),
                                   UpdateEntity(4, Some(5), None, None) >>) >>]

DemAssets == {DemGated, DemWorld, DemLate, DemNoInfo}

\* The delta times handed to advance.
\* The playback time up to which the model follows a playback object.
DurationCap == 2000 * Ms

DeltaTimes == {0, 50 * Ms, 60 * Ms, 500 * Ms}

(***************************************************************************)
(* A DemPlayback driven directly: new(dem), then advance(dt) calls.        *)
(***************************************************************************)
DemInit ==
    /\ \E dem \in DemAssets : playback = DemPlaybackNew(dem)
    /\ total_advanced = 0
    /\ emitted = [i \in 1..Len(playback.events) |-> 0]
    /\ advances = 0

Advance(dt) ==
    /\ advances < MaxAdvances
    /\ dt <= DurationCap - total_advanced
    /\ playback' = DemPlaybackAdvance(playback, dt)
    /\ total_advanced' = total_advanced + dt
    /\ emitted' = [i \in DOMAIN emitted |->
                     emitted[i] + Cardinality({k \in DOMAIN playback'.due_index :
                                                  playback'.due_index[k] = i})]
    /\ advances' = advances + 1
    /\ UNCHANGED notDem

DemNext == \E dt \in DeltaTimes : Advance(dt)

\* A playback that is advanced for as long as it runs, every time by a
\* positive delta time (dem_advance_playback on every tick of the world).
AdvanceLive(dt) ==
    /\ dt > 0
    /\ playback' = DemPlaybackAdvance(playback, dt)
    /\ emitted' = [i \in DOMAIN emitted |->
                     emitted[i] + Cardinality({k \in DOMAIN playback'.due_index :
                                                  playback'.due_index[k] = i})]
    /\ UNCHANGED <<total_advanced, advances>>
    /\ UNCHANGED notDem

DemLiveNext == \E dt \in DeltaTimes : AdvanceLive(dt)

(***************************************************************************)
(* Asset catalog seen by the world: AssetManager::by_name::<Dem> and       *)
(* by_name::<Bsp>.  A name the catalog cannot resolve gives Err (None).    *)
(***************************************************************************)
Bsp == [entities |-> <<"worldspawn", "info_player_start">>]

ByNameDem(path) ==
    CASE path = "demo1.dem" -> Some(DemWorld)
      [] path = "demo2.dem" -> Some(DemUpdates)
      [] path = "noinfo.dem" -> Some(DemNoInfo)
      [] OTHER -> None

ByNameBsp(path) ==
    IF path = "maps/e1m1.bsp" THEN Some(Bsp) ELSE None

WorldModes ==
    {[kind |-> "Demo", path |-> "demo1.dem"],
     [kind |-> "Demo", path |-> "noinfo.dem"],
     [kind |-> "Demo", path |-> "missing.dem"],
     [kind |-> "Campaign", path |-> "maps/e1m1.bsp"],
     [kind |-> "Deathmatch", path |-> "maps/e1m1.bsp"],
     [kind |-> "Campaign", path |-> "maps/missing.bsp"]}

(***************************************************************************)
(* Entity store (legion::World).  An entity is the record of its           *)
(* components: PlayerId, EntityId, Transform and the Dirty tag.            *)
(***************************************************************************)
PlayerEntity(p) == [player_id |-> Some(p), entity_id |-> None, transform |-> None, dirty |-> FALSE]
MapEntity(i) == [player_id |-> None, entity_id |-> Some(i), transform |-> None, dirty |-> FALSE]
DemEntity(e, pos) == [player_id |-> None, entity_id |-> Some(e), transform |-> Some(pos), dirty |-> TRUE]

\* query::player_exists
player_exists(entities, player_id) ==
    \E i \in DOMAIN entities : entities[i].player_id = Some(player_id)

RemoveAt(seq, i) == SubSeq(seq, 1, i - 1) \o SubSeq(seq, i + 1, Len(seq))

\* on_leave's find_map + remove: the first entity that carries player_id.
RemovePlayer(entities, player_id) ==
    IF player_exists(entities, player_id)
    THEN LET i == CHOOSE k \in DOMAIN entities :
                    /\ entities[k].player_id = Some(player_id)
                    /\ \A j \in 1..(k - 1) : entities[j].player_id # Some(player_id)
         IN  RemoveAt(entities, i)
    ELSE entities

(***************************************************************************)
(* Connections (world.rs).                                                 *)
(***************************************************************************)
is_empty(connections) == DOMAIN connections = {}

active_connections(connections) ==
    {c \in DOMAIN connections : connections[c] = "Established"}

no_active_connections(connections) ==
    \/ DOMAIN connections = {}
    \/ \A c \in DOMAIN connections : connections[c] = "Suspended"

(***************************************************************************)
(* World events pushed to the EventWriter by the replay system.            *)
(***************************************************************************)
EntitySpawn(e, pos) == [type |-> "Entity.Spawn", entity_id |-> e, transform |-> pos]
AudioPlay(e, s, pos) == [type |-> "Audio.Play", handle_index |-> e, sound_id |-> s, position |-> pos]
AudioStop(e) == [type |-> "Audio.Stop", handle_index |-> e]

\* The index of the first entity with that EntityId and a Transform, or 0.
FindTransform(entities, e) ==
    LET hits == {k \in DOMAIN entities :
                    entities[k].entity_id = Some(e) /\ IsSome(entities[k].transform)}
    IN  IF hits = {} THEN 0
        ELSE CHOOSE k \in hits : \A j \in hits : k <= j

\* A variant of set_if_some that resets an absent axis.
SetIfSomeOrReset(opt, old) == IF IsSome(opt) THEN Unwrap(opt) ELSE 0

\* set_if_some, with the closure's assignment as the result.
SetIfSome(opt, old) == IF IsSome(opt) THEN Unwrap(opt) ELSE old

\* dem_process_playback: acc = [entities, spawned, dirty, writer]; transforms are
\* written in place, pushes and added components go through the command buffer.
RECURSIVE ProcessEvents(_, _)
ProcessEvents(due, acc) ==
    IF due = <<>> THEN acc
    ELSE LET event == Head(due)
             k == IF event.type \in {"UpdateEntity", "PlaySound"}
                  THEN FindTransform(acc.entities, event.entity_id) ELSE 0
             next ==
               CASE event.type = "PlaySound" ->
                      IF k # 0
                      THEN [acc EXCEPT !.writer =
                              Append(@, AudioPlay(event.entity_id, event.sound_id,
                                                  Unwrap(acc.entities[k].transform)))]
                      ELSE acc
                 [] event.type = "StopSound" ->
                      [acc EXCEPT !.writer = Append(@, AudioStop(event.entity_id))]
                 [] event.type = "UpdateEntity" ->
                      IF k # 0
                      THEN LET old == Unwrap(acc.entities[k].transform)
                               pos == << SetIfSome(event.origin1, old[1]),
                                         SetIfSome(event.origin2, old[2]),
                                         SetIfSome(event.origin3, old[3]) >>
                           IN  [acc EXCEPT !.entities[k].transform = Some(pos),
                                           !.dirty = @ \cup {k}]
                      ELSE acc
                 [] event.type = "SpawnBaseline" ->
                      [acc EXCEPT !.spawned = Append(@, DemEntity(event.entity_id, event.origin)),
                                  !.writer = Append(@, EntitySpawn(event.entity_id, event.origin))]
                 [] OTHER -> acc
         IN  ProcessEvents(Tail(due), next)

\* The replay schedule: dem_advance_playback, then dem_process_playback, then the
\* command buffer is flushed into the entity store.
ReplaySystems(entities, resources) ==
    LET pb == DemPlaybackAdvance(Unwrap(resources.playback), Unwrap(resources.delta_time))
        acc == ProcessEvents(pb.due_events,
                             [entities |-> entities, spawned |-> <<>>, dirty |-> {},
                              writer |-> resources.event_writer])
        flushed == [k \in DOMAIN acc.entities |->
                      IF k \in acc.dirty THEN [acc.entities[k] EXCEPT !.dirty = TRUE]
                      ELSE acc.entities[k]]
    IN  [entities |-> flushed \o acc.spawned,
         resources |-> [resources EXCEPT !.playback = Some(pb), !.event_writer = acc.writer]]

SystemsExecute(systems, entities, resources) ==
    IF systems = "replay" THEN ReplaySystems(entities, resources)
    ELSE [entities |-> entities, resources |-> resources]

(***************************************************************************)
(* WorldServer (world.rs).                                                 *)
(***************************************************************************)
WorldServerNew ==
    [state |-> "Stopped",
     entities |-> <<>>,
     resources |-> [instant |-> None, delta_time |-> None, playback |-> None,
                    world_map |-> None, event_writer |-> <<>>],
     systems |-> "empty",
     connections |-> EmptyMap]

\* load_dem: the first event of the demo must be ServerInfo.
load_dem(w, dem) ==
    LET events == DemIter(dem)
    IN  IF events # <<>> /\ events[1].type = "ServerInfo"
        THEN [ok |-> TRUE,
              world |-> [w EXCEPT !.resources.playback = Some(DemPlaybackNew(dem))],
              world_map |-> Some(events[1].map_path)]
        ELSE [ok |-> FALSE, world |-> w, world_map |-> None]

\* load_bsp: one entity with EntityId(i) per entity of the level; it returns ().
load_bsp(w, bsp) ==
    [w EXCEPT !.entities = @ \o [i \in 1..Len(bsp.entities) |-> MapEntity(i - 1)]]

\* load: the result is [ok, world], the world being as a failed call leaves it.
WorldLoad(w, world_mode) ==
    IF world_mode.kind = "Demo"
    THEN LET dem == ByNameDem(world_mode.path)
         IN  IF ~IsSome(dem) THEN [ok |-> FALSE, world |-> w]
             ELSE LET cleared == [w EXCEPT !.entities = <<>>]
                      r == load_dem(cleared, Unwrap(dem))
                  IN  IF ~r.ok THEN [ok |-> FALSE, world |-> r.world]
                      ELSE [ok |-> TRUE,
                            world |-> [r.world EXCEPT !.resources.world_map = r.world_map,
                                                     !.systems = "replay"]]
    ELSE LET bsp == ByNameBsp(world_mode.path)
         IN  IF ~IsSome(bsp) THEN [ok |-> FALSE, world |-> w]
             ELSE [ok |-> TRUE,
                   world |-> [load_bsp(w, Unwrap(bsp)) EXCEPT !.systems = "empty"]]

WorldUnload(w) ==
    [w EXCEPT !.entities = <<>>, !.resources.world_map = None, !.systems = "empty"]

\* Instant::elapsed of the stored instant, which get_or_insert sets on first use.
Elapsed(w, t) ==
    IF IsSome(w.resources.instant) THEN t - Unwrap(w.resources.instant) ELSE 0

EntityIdsOf(entities) ==
    LET F[i \in 0..Len(entities)] ==
          IF i = 0 THEN <<>>
          ELSE IF IsSome(entities[i].entity_id)
               THEN Append(F[i - 1], Unwrap(entities[i].entity_id))
               ELSE F[i - 1]
    IN  F[Len(entities)]

\* A variant of step that restarts the tick clock on every call made while
\* the world is Stopped.
WorldStepRestartsClock(w, t) ==
    IF is_empty(w.connections) \/ w.state = "Stopped"
    THEN [world |-> [w EXCEPT !.resources.instant =
                                  IF IsSome(@) /\ ~is_empty(w.connections) THEN Some(t) ELSE @],
          snapshot |-> None, ran |-> FALSE, pushed |-> <<>>]
    ELSE LET delta_time == Elapsed(w, t)
             inserted == IF IsSome(w.resources.instant) THEN w
                         ELSE [w EXCEPT !.resources.instant = Some(t)]
         IN  IF delta_time < TickFloor
             THEN [world |-> inserted, snapshot |-> None, ran |-> FALSE, pushed |-> <<>>]
             ELSE LET res == [w.resources EXCEPT !.delta_time = Some(delta_time),
                                                 !.instant = Some(t)]
                      out == SystemsExecute(w.systems, w.entities, res)
                      n == Len(w.resources.event_writer)
                  IN  [world |-> [w EXCEPT !.entities = out.entities,
                                           !.resources = out.resources],
                       snapshot |-> Some([entities |-> EntityIdsOf(out.entities),
                                          events |-> <<>>]),
                       ran |-> TRUE,
                       pushed |-> SubSeq(out.resources.event_writer, n + 1,
                                         Len(out.resources.event_writer))]

\* step at clock t: the result is [world, snapshot, ran, pushed], where ran and
\* pushed tell whether the systems ran and what they pushed to the event writer.
WorldStep(w, t) ==
    IF is_empty(w.connections) \/ w.state = "Stopped"
    THEN [world |-> w, snapshot |-> None, ran |-> FALSE, pushed |-> <<>>]
    ELSE LET delta_time == Elapsed(w, t)
             inserted == IF IsSome(w.resources.instant) THEN w
                         ELSE [w EXCEPT !.resources.instant = Some(t)]
         IN  IF delta_time < TickFloor
             THEN [world |-> inserted, snapshot |-> None, ran |-> FALSE, pushed |-> <<>>]
             ELSE LET res == [w.resources EXCEPT !.delta_time = Some(delta_time),
                                                 !.instant = Some(t)]
                      out == SystemsExecute(w.systems, w.entities, res)
                      n == Len(w.resources.event_writer)
                  IN  [world |-> [w EXCEPT !.entities = out.entities,
                                           !.resources = out.resources],
                       snapshot |-> Some([entities |-> EntityIdsOf(out.entities),
                                          events |-> <<>>]),
                       ran |-> TRUE,
                       pushed |-> SubSeq(out.resources.event_writer, n + 1,
                                         Len(out.resources.event_writer))]

on_join(w, connection_id, player_id) ==
    [w EXCEPT !.connections = MapInsert(@, connection_id, "Suspended"),
              !.entities = Append(@, PlayerEntity(player_id))]

on_leave(w, connection_id, player_id) ==
    LET connections == MapRemove(w.connections, connection_id)
    IN  [w EXCEPT !.connections = connections,
                  !.entities = RemovePlayer(@, player_id),
                  !.state = IF no_active_connections(connections) THEN "Stopped" ELSE @]

on_play(w, connection_id, player_id) ==
    IF player_exists(w.entities, player_id)
    THEN [w EXCEPT !.connections = MapInsert(@, connection_id, "Established"),
                   !.state = "Running"]
    ELSE w

\* A variant of on_pause that re-evaluates the world state without recording
\* the connection as Suspended.
on_pause_keep(w, connection_id, player_id) ==
    IF player_exists(w.entities, player_id)
    THEN [w EXCEPT !.state = IF no_active_connections(w.connections) THEN "Stopped" ELSE @]
    ELSE w

on_pause(w, connection_id, player_id) ==
    IF player_exists(w.entities, player_id)
    THEN LET connections == MapInsert(w.connections, connection_id, "Suspended")
         IN  [w EXCEPT !.connections = connections,
                       !.state = IF no_active_connections(connections) THEN "Stopped" ELSE @]
    ELSE w

on_resume(w, connection_id, player_id) ==
    IF player_exists(w.entities, player_id)
    THEN [w EXCEPT !.connections = MapInsert(@, connection_id, "Established"),
                   !.state = "Running"]
    ELSE w

on_stop(w, connection_id, player_id) ==
    IF player_exists(w.entities, player_id)
    THEN LET connections == MapInsert(w.connections, connection_id, "Suspended")
         IN  [w EXCEPT !.connections = connections,
                       !.state = IF no_active_connections(connections) THEN "Stopped" ELSE @]
    ELSE w

(***************************************************************************)
(* One WorldServer driven through its public operations, as the Universe   *)
(* worker drives it.                                                       *)
(***************************************************************************)
ClockStep == 50 * Ms
ElapseSteps == {ClockStep, 2 * ClockStep}

\* The history of the tick clock: origin is the instant of the latest tick, or
\* of the first step attempted while Running; stopped is the time the world
\* has spent Stopped since origin; paused is the Stopped time that the latest
\* tick's interval held.
TickLogNew == [origin |-> None, stopped |-> 0, paused |-> 0]

TickLogElapse(log, w, d) ==
    IF w.state = "Stopped" /\ IsSome(log.origin)
    THEN [log EXCEPT !.stopped = @ + d]
    ELSE log

TickLogStep(log, w, t, ran) ==
    IF is_empty(w.connections) \/ w.state = "Stopped" THEN log
    ELSE IF ran THEN [origin |-> Some(t), stopped |-> 0, paused |-> log.stopped]
    ELSE IF IsSome(log.origin) THEN log
    ELSE [log EXCEPT !.origin = Some(t)]

WorldInit ==
    /\ world = WorldServerNew
    /\ now = 0
    /\ PLAYER_ID_GENERATOR = 0
    /\ minted_for = EmptyMap
    /\ last_step = None
    /\ loads = 0
    /\ tick_log = TickLogNew

Load(world_mode) ==
    /\ loads < MaxLoads
    /\ world' = WorldLoad(world, world_mode).world
    /\ loads' = loads + 1
    /\ last_step' = None
    /\ UNCHANGED <<now, PLAYER_ID_GENERATOR, minted_for, tick_log, notWorld>>

Unload ==
    /\ loads < MaxLoads
    /\ world' = WorldUnload(world)
    /\ loads' = loads + 1
    /\ last_step' = None
    /\ UNCHANGED <<now, PLAYER_ID_GENERATOR, minted_for, tick_log, notWorld>>

Elapse(d) ==
    /\ now + d <= MaxClock * ClockStep
    /\ now' = now + d
    /\ last_step' = None
    /\ tick_log' = TickLogElapse(tick_log, world, d)
    /\ UNCHANGED <<world, PLAYER_ID_GENERATOR, minted_for, loads, notWorld>>

Step ==
    LET r == WorldStep(world, now)
    IN  /\ world' = r.world
        /\ last_step' = Some([established |-> active_connections(world.connections) # {},
                              elapsed |-> Elapsed(world, now),
                              snapshot |-> r.snapshot,
                              ran |-> r.ran,
                              pushed |-> r.pushed])
        /\ tick_log' = TickLogStep(tick_log, world, now, r.ran)
        /\ UNCHANGED <<now, PLAYER_ID_GENERATOR, minted_for, loads, notWorld>>

OnJoin(c) ==
    /\ PLAYER_ID_GENERATOR < MaxJoins
    /\ world' = on_join(world, c, PLAYER_ID_GENERATOR)
    /\ minted_for' = MapInsert(minted_for, PLAYER_ID_GENERATOR, c)
    /\ PLAYER_ID_GENERATOR' = PLAYER_ID_GENERATOR + 1
    /\ last_step' = None
    /\ UNCHANGED <<now, loads, tick_log, notWorld>>

OnLeave(c, p) ==
    /\ world' = on_leave(world, c, p)
    /\ last_step' = None
    /\ UNCHANGED <<now, PLAYER_ID_GENERATOR, minted_for, loads, tick_log, notWorld>>

OnPlay(c, p) ==
    /\ world' = on_play(world, c, p)
    /\ last_step' = None
    /\ UNCHANGED <<now, PLAYER_ID_GENERATOR, minted_for, loads, tick_log, notWorld>>

OnPause(c, p) ==
    /\ world' = on_pause(world, c, p)
    /\ last_step' = None
    /\ UNCHANGED <<now, PLAYER_ID_GENERATOR, minted_for, loads, tick_log, notWorld>>

OnResume(c, p) ==
    /\ world' = on_resume(world, c, p)
    /\ last_step' = None
    /\ UNCHANGED <<now, PLAYER_ID_GENERATOR, minted_for, loads, tick_log, notWorld>>

OnStop(c, p) ==
    /\ world' = on_stop(world, c, p)
    /\ last_step' = None
    /\ UNCHANGED <<now, PLAYER_ID_GENERATOR, minted_for, loads, tick_log, notWorld>>

WorldNext ==
    \/ \E world_mode \in WorldModes : Load(world_mode)
    \/ Unload
    \/ \E d \in ElapseSteps : Elapse(d)
    \/ Step
    \/ \E c \in ConnectionIds : OnJoin(c)
    \/ \E c \in ConnectionIds, p \in PlayerIds : OnLeave(c, p)
    \/ \E c \in ConnectionIds, p \in PlayerIds : OnPlay(c, p)
    \/ \E c \in ConnectionIds, p \in PlayerIds : OnPause(c, p)
    \/ \E c \in ConnectionIds, p \in PlayerIds : OnResume(c, p)
    \/ \E c \in ConnectionIds, p \in PlayerIds : OnStop(c, p)

(***************************************************************************)
(* One WorldServer replaying a demo: the world is loaded, joined and        *)
(* played, and stepped over a longer stretch of the clock.                 *)
(***************************************************************************)
ReplayModes ==
    {[kind |-> "Demo", path |-> "demo1.dem"],
     [kind |-> "Demo", path |-> "demo2.dem"]}

ReplayElapse(d) ==
    /\ now + d <= MaxReplayClock * ClockStep
    /\ now' = now + d
    /\ last_step' = None
    /\ tick_log' = TickLogElapse(tick_log, world, d)
    /\ UNCHANGED <<world, PLAYER_ID_GENERATOR, minted_for, loads, notWorld>>

ReplayNext ==
    \/ \E world_mode \in ReplayModes : Load(world_mode)
    \/ \E d \in ElapseSteps : ReplayElapse(d)
    \/ Step
    \/ \E c \in ConnectionIds : OnJoin(c)
    \/ \E c \in ConnectionIds, p \in PlayerIds : OnPlay(c, p)
    \/ \E c \in ConnectionIds, p \in PlayerIds : OnPause(c, p)
    \/ \E c \in ConnectionIds, p \in PlayerIds : OnResume(c, p)

(***************************************************************************)
(* Text.  A string is the sequence of its characters, so that splitting,   *)
(* trimming, joining and slicing are computed as the code computes them.   *)
(***************************************************************************)
Whitespace == {" ", "\n", "\t"}

Prefix(s, n) == SubSeq(s, 1, n)
Drop(s, n) == SubSeq(s, n + 1, Len(s))

\* str::trim_start, str::trim_end, str::trim
RECURSIVE TrimStart(_)
TrimStart(s) ==
    IF s # <<>> /\ Head(s) \in Whitespace THEN TrimStart(Tail(s)) ELSE s

RECURSIVE TrimEnd(_)
TrimEnd(s) ==
    IF s # <<>> /\ s[Len(s)] \in Whitespace THEN TrimEnd(Prefix(s, Len(s) - 1)) ELSE s

Trim(s) == TrimEnd(TrimStart(s))

\* str::find("//"): Some(byte offset of the first match) or None.
FindComment(s) ==
    LET hits == {i \in 1..(Len(s) - 1) : s[i] = "/" /\ s[i + 1] = "/"}
    IN  IF hits = {} THEN None
        ELSE Some((CHOOSE i \in hits : \A j \in hits : i <= j) - 1)

\* str::lines: split at every "\n"; a final line needs no terminator.
RECURSIVE Lines(_)
Lines(text) ==
    IF text = <<>> THEN <<>>
    ELSE LET nls == {i \in DOMAIN text : text[i] = "\n"}
         IN  IF nls = {} THEN <<text>>
             ELSE LET nl == CHOOSE i \in nls : \A j \in nls : i <= j
                  IN  <<Prefix(text, nl - 1)>> \o Lines(Drop(text, nl))

\* str::split_whitespace
RECURSIVE SplitWhitespace(_)
SplitWhitespace(s) ==
    LET t == TrimStart(s)
    IN  IF t = <<>> THEN <<>>
        ELSE LET ws == {i \in DOMAIN t : t[i] \in Whitespace}
                 end == IF ws = {} THEN Len(t) + 1
                        ELSE CHOOSE i \in ws : \A j \in ws : i <= j
             IN  <<Prefix(t, end - 1)>> \o SplitWhitespace(Drop(t, end - 1))

\* A variant of join that puts no separator between the tokens.
RECURSIVE JoinConcat(_)
JoinConcat(tokens) ==
    IF tokens = <<>> THEN <<>> ELSE Head(tokens) \o JoinConcat(Tail(tokens))

\* [&str]::join(" ")
RECURSIVE JoinSpace(_)
JoinSpace(tokens) ==
    IF tokens = <<>> THEN <<>>
    ELSE IF Len(tokens) = 1 THEN tokens[1]
    ELSE tokens[1] \o <<" ">> \o JoinSpace(Tail(tokens))

\* s.strip_prefix('"').and_then(|s| s.strip_suffix('"')).unwrap_or(&s)
StripQuotes(s) ==
    IF Len(s) >= 2 /\ s[1] = "\"" /\ s[Len(s)] = "\""
    THEN SubSeq(s, 2, Len(s) - 1)
    ELSE s

\* str::replace(";", "\n")
ReplaceSemicolons(s) == [i \in DOMAIN s |-> IF s[i] = ";" THEN "\n" ELSE s[i]]

(***************************************************************************)
(* CommandBuffer (command.rs).                                             *)
(***************************************************************************)
\* The closure of process_lines for one line: the comment position is found
\* in the trimmed line and the cut is made in the line itself.
ProcessLine(line) ==
    LET trimmed == Trim(line)
        comment_position == FindComment(trimmed)
    IN  IF IsSome(comment_position)
        THEN Trim(Prefix(line, Unwrap(comment_position)))
        ELSE trimmed

RECURSIVE FilterNonEmpty(_)
FilterNonEmpty(lines) ==
    IF lines = <<>> THEN <<>>
    ELSE IF Head(lines) = <<>> THEN FilterNonEmpty(Tail(lines))
    ELSE <<Head(lines)>> \o FilterNonEmpty(Tail(lines))

process_lines(text) ==
    LET raw == Lines(text)
    IN  FilterNonEmpty([i \in DOMAIN raw |-> ProcessLine(raw[i])])

push_back(command_buffer, text) == command_buffer \o process_lines(text)

\* The lines are pushed to the front one by one, last line first.
RECURSIVE PushFrontEach(_, _)
PushFrontEach(command_buffer, lines) ==
    IF lines = <<>> THEN command_buffer
    ELSE PushFrontEach(<<Head(lines)>> \o command_buffer, Tail(lines))

Reverse(seq) == [i \in DOMAIN seq |-> seq[Len(seq) + 1 - i]]

\* A variant of push_front that pushes the lines in text order.
push_front_unreversed(command_buffer, text) ==
    PushFrontEach(command_buffer, process_lines(text))

push_front(command_buffer, text) ==
    PushFrontEach(command_buffer, Reverse(process_lines(text)))

(***************************************************************************)
(* Scripts and names of the model.                                         *)
(***************************************************************************)
Str_a == <<"a">>
Str_b == <<"b">>
Str_c == <<"c">>
Str_d == <<"d">>
Str_alias == <<"a", "l", "i", "a", "s">>
Str_exec == <<"e", "x", "e", "c">>
Str_wait == <<"w", "a", "i", "t">>
Str_health == <<"h", "e", "a", "l", "t", "h">>
Str_echo == <<"e", "c", "h", "o">>
Str_hi == <<"h", "i">>
Str_greet == <<"g", "r", "e", "e", "t">>
Str_say == <<"s", "a", "y">>
Str_cfg == <<"c", "f", "g">>
Str_100 == <<"1", "0", "0">>
Str_50 == <<"5", "0">>
Str_hello_world == <<"h", "e", "l", "l", "o", " ", "w", "o", "r", "l", "d">>
Str_echo_hi == <<"e", "c", "h", "o", " ", "h", "i">>
Str_Health == <<"H", "e", "a", "l", "t", "h">>
Str_nofile == <<"n", "o", "f", "i", "l", "e">>
Str_1 == <<"1">>
Str_2 == <<"2">>
Str_health_50 == <<"h", "e", "a", "l", "t", "h", " ", "5", "0">>
Str_b_c == <<"b", "\n", " ", "c">>

\* a ; wait ; b on three lines
ScriptWait ==
    <<"a", "\n", "w", "a", "i", "t", "\n", "b">>

\* alias a "b; c"
ScriptAlias ==
    <<"a", "l", "i", "a", "s", " ", "a", " ", "\"", "b", ";", " ", "c",
      "\"">>

\* a ; d on two lines
ScriptAD ==
    <<"a", "\n", "d">>

\* alias greet "echo hi" ; health 100 ; greet on three lines
ScriptGreet ==
    <<"a", "l", "i", "a", "s", " ", "g", "r", "e", "e", "t", " ", "\"",
      "e", "c", "h", "o", " ", "h", "i", "\"", "\n", "h", "e", "a", "l",
      "t", "h", " ", "1", "0", "0", "\n", "g", "r", "e", "e", "t">>

\* say  hello   world ; an empty line ; exec cfg ; exec nofile
ScriptSay ==
    <<"s", "a", "y", " ", " ", "h", "e", "l", "l", "o", " ", " ", " ", "w",
      "o", "r", "l", "d", "\n", "\n", "e", "x", "e", "c", " ", "c", "f",
      "g", "\n", "e", "x", "e", "c", " ", "n", "o", "f", "i", "l", "e">>

\* the script file cfg: health 50 // default ; b
FileCfg ==
    <<"h", "e", "a", "l", "t", "h", " ", "5", "0", " ", "/", "/", " ", "d",
      "e", "f", "a", "u", "l", "t", "\n", "b">>


\* alias a a ; a on two lines: the body of a names a
ScriptSelfAlias ==
    <<"a", "l", "i", "a", "s", " ", "a", " ", "a", "\n", "a">>

\* alias b c ; alias c b ; b on three lines: b and c name each other
ScriptMutualAlias ==
    <<"a", "l", "i", "a", "s", " ", "b", " ", "c", "\n", "a", "l", "i",
      "a", "s", " ", "c", " ", "b", "\n", "b">>

\* alias wait "health 50" ; wait ; d on three lines: wait is a built-in and
\* an alias at once
ScriptAliasWait ==
    <<"a", "l", "i", "a", "s", " ", "w", "a", "i", "t", " ", "\"", "h", "e",
      "a", "l", "t", "h", " ", "5", "0", "\"", "\n", "w", "a", "i", "t",
      "\n", "d">>

\* a 1 ; alias a d ; a 2 on three lines: a is first a plain name or a command
\* of the host, then an alias too
ScriptOrder ==
    <<"a", " ", "1", "\n", "a", "l", "i", "a", "s", " ", "a", " ", "d", "\n",
      "a", " ", "2">>

\* Indented lines with comments, a comment-only line and a plain line:
\* "  health 50 // x", "\tb // y", "// only", "c"
ScriptIndented ==
    <<" ", " ", "h", "e", "a", "l", "t", "h", " ", "5", "0", " ", "/", "/",
      " ", "x", "\n", "\t", "b", " ", "/", "/", " ", "y", "\n", "/", "/",
      " ", "o", "n", "l", "y", "\n", "c">>

\* Health 100: a variable name with an upper-case letter
ScriptHealthCase ==
    <<"H", "e", "a", "l", "t", "h", " ", "1", "0", "0">>

Scripts == {ScriptWait, ScriptAlias, ScriptAD, ScriptGreet, ScriptSay}

\* Scripts whose aliases expand to themselves, next to some that do not.
AliasScripts == {ScriptSelfAlias, ScriptMutualAlias, ScriptAlias, ScriptAD, ScriptGreet}

\* Scripts that meet the dispatch order, the comment cut and the variable names.
DispatchScripts == {ScriptAliasWait, ScriptOrder, ScriptIndented, ScriptHealthCase}

\* The names the host registers no-op handlers under.
CustomCommands == {Str_a, Str_b}

\* Resources::by_name::<String> as the exec handler calls it.
ByNameScript(file_name) ==
    IF file_name = Str_cfg THEN Some(FileCfg) ELSE None

(***************************************************************************)
(* Console (console.rs).  execute() is followed iteration by iteration:    *)
(* pc is "idle" outside execute(), "loop" at the head of the while-let     *)
(* loop and "exit" after the loop, before the flag is set to Stopped.      *)
(***************************************************************************)
ConsoleNew ==
    [console_variables |-> EmptyMap,
     command_aliases |-> EmptyMap,
     command_buffer |-> <<>>,
     command_registry |-> EmptyMap,
     execution_control_flow |-> "Stopped"]

register_command(con, name, handler) ==
    [con EXCEPT !.command_registry = MapInsert(@, name, handler)]

register_builtin_commands(con) ==
    register_command(register_command(register_command(con, Str_alias, "alias"),
                                      Str_exec, "exec"),
                     Str_wait, "wait")

prepend_script(con, text) ==
    [con EXCEPT !.command_buffer = push_front(@, text)]

append_script(con, text) ==
    [con EXCEPT !.command_buffer = push_back(@, text)]

\* The alias built-in (register_alias_command).
AliasHandler(con, args) ==
    IF Len(args) > 1
    THEN LET command_text == ReplaceSemicolons(StripQuotes(JoinSpace(Tail(args))))
         IN  [con EXCEPT !.command_aliases = MapInsert(@, args[1], command_text)]
    ELSE [con EXCEPT !.command_aliases = MapRemove(@, args[1])]

\* A variant of the exec built-in that suspends execute() when the file is
\* missing.
ExecHandlerSuspend(con, args) ==
    LET file_contents == ByNameScript(args[1])
    IN  IF IsSome(file_contents) THEN prepend_script(con, Unwrap(file_contents))
        ELSE [con EXCEPT !.execution_control_flow = "Suspended"]

\* The exec built-in (register_exec_command).
ExecHandler(con, args) ==
    LET file_contents == ByNameScript(args[1])
    IN  IF IsSome(file_contents) THEN prepend_script(con, Unwrap(file_contents))
        ELSE con

\* The wait built-in (register_wait_command).
WaitHandler(con, args) == [con EXCEPT !.execution_control_flow = "Suspended"]

\* args[0] of the alias and exec handlers is out of bounds without arguments.
HandlerPanics(handler, args) == handler \in {"alias", "exec"} /\ args = <<>>

CallHandler(handler, con, args) ==
    CASE HandlerPanics(handler, args) -> con
      [] handler = "alias" -> AliasHandler(con, args)
      [] handler = "exec" -> ExecHandler(con, args)
      [] handler = "wait" -> WaitHandler(con, args)
      [] OTHER -> con

\* ConsoleVariables::get::<String>: the stored text parses as itself.
get_variable(con, name) ==
    IF name \in DOMAIN con.console_variables
    THEN Some(con.console_variables[name])
    ELSE None

\* ConsoleVariables::set
set_variable(con, name, value) ==
    [con EXCEPT !.console_variables = MapInsert(@, name, value)]

\* A variant of the dispatch order that looks a name up in the registry first.
DispatchKindCommandFirst(con, command_name) ==
    IF command_name \in DOMAIN con.command_registry THEN "command"
    ELSE IF command_name \in DOMAIN con.command_aliases THEN "alias"
    ELSE "variable"

\* What one iteration of execute's loop does with the popped line.
DispatchKind(con, command_name) ==
    IF command_name \in DOMAIN con.command_aliases THEN "alias"
    ELSE IF command_name \in DOMAIN con.command_registry THEN "command"
    ELSE "variable"

\* A variant of the loop body that goes on to the next line after a handler
\* set the flag to Suspended.
ExecuteLineNoBreak(con) ==
    LET command_line == Head(con.command_buffer)
        popped == [con EXCEPT !.command_buffer = Tail(@)]
        tokens == SplitWhitespace(command_line)
        command_name == tokens[1]
        command_args == Tail(tokens)
        kind == DispatchKind(con, command_name)
    IN  CASE kind = "alias" ->
               [console |-> [popped EXCEPT !.command_buffer =
                                push_front(@, con.command_aliases[command_name])],
                break |-> FALSE,
                panic |-> FALSE]
          [] kind = "command" ->
               [console |-> CallHandler(con.command_registry[command_name], popped, command_args),
                break |-> FALSE,
                panic |-> HandlerPanics(con.command_registry[command_name], command_args)]
          [] OTHER ->
               [console |-> set_variable(popped, command_name, JoinSpace(command_args)),
                break |-> FALSE,
                panic |-> FALSE]

\* The body of the while-let loop of execute for the line at the front of the
\* queue: the console after it, and whether the loop is left by break.
ExecuteLine(con) ==
    LET command_line == Head(con.command_buffer)
        popped == [con EXCEPT !.command_buffer = Tail(@)]
        tokens == SplitWhitespace(command_line)
        command_name == tokens[1]
        command_args == Tail(tokens)
        kind == DispatchKind(con, command_name)
    IN  CASE kind = "alias" ->
               [console |-> [popped EXCEPT !.command_buffer =
                                push_front(@, con.command_aliases[command_name])],
                break |-> FALSE,
                panic |-> FALSE]
          [] kind = "command" ->
               LET after == CallHandler(con.command_registry[command_name], popped, command_args)
               IN  [console |-> after,
                    break |-> after.execution_control_flow = "Suspended",
                    panic |-> HandlerPanics(con.command_registry[command_name], command_args)]
          [] OTHER ->
               [console |-> set_variable(popped, command_name, JoinSpace(command_args)),
                break |-> FALSE,
                panic |-> FALSE]

ConsoleInit ==
    /\ console = ConsoleNew
    /\ pc = "idle"
    /\ trace = <<>>
    /\ entry_buffer = <<>>
    /\ left = None
    /\ scripts = 0

RegisterBuiltinCommands ==
    /\ pc = "idle"
    /\ console' = register_builtin_commands(console)
    /\ trace' = <<>>
    /\ entry_buffer' = <<>>
    /\ left' = None
    /\ UNCHANGED <<pc, scripts, notConsole>>

RegisterCommand(name) ==
    /\ pc = "idle"
    /\ console' = register_command(console, name, "noop")
    /\ trace' = <<>>
    /\ entry_buffer' = <<>>
    /\ left' = None
    /\ UNCHANGED <<pc, scripts, notConsole>>

AppendScript(text) ==
    /\ pc = "idle"
    /\ scripts < MaxScripts
    /\ console' = append_script(console, text)
    /\ scripts' = scripts + 1
    /\ trace' = <<>>
    /\ entry_buffer' = <<>>
    /\ left' = None
    /\ UNCHANGED <<pc, notConsole>>

PrependScript(text) ==
    /\ pc = "idle"
    /\ scripts < MaxScripts
    /\ console' = prepend_script(console, text)
    /\ scripts' = scripts + 1
    /\ trace' = <<>>
    /\ entry_buffer' = <<>>
    /\ left' = None
    /\ UNCHANGED <<pc, notConsole>>

\* execute(): the flag is set to Running and the loop is entered.
ExecuteEnter ==
    /\ pc = "idle"
    /\ console' = [console EXCEPT !.execution_control_flow = "Running"]
    /\ pc' = "loop"
    /\ trace' = <<>>
    /\ entry_buffer' = console.command_buffer
    /\ UNCHANGED <<left, scripts, notConsole>>

\* execute(): pop_front returned a line; one iteration of the loop.
ExecuteIterate ==
    /\ pc = "loop"
    /\ console.command_buffer # <<>>
    /\ LET tokens == SplitWhitespace(Head(console.command_buffer))
           r == ExecuteLine(console)
       IN  /\ console' = r.console
           /\ pc' = IF r.panic THEN "panicked" ELSE IF r.break THEN "exit" ELSE "loop"
           /\ trace' = (IF Len(trace) < MaxTrace THEN trace ELSE <<>>)
                          \o <<[kind |-> DispatchKind(console, tokens[1]),
                                name |-> tokens[1],
                                args |-> Tail(tokens)]>>
    /\ UNCHANGED <<entry_buffer, left, scripts, notConsole>>

\* execute(): the loop was left, by break or because pop_front returned None;
\* the flag is set to Stopped and the call returns.
ExecuteReturn ==
    /\ \/ pc = "exit"
       \/ pc = "loop" /\ console.command_buffer = <<>>
    /\ console' = [console EXCEPT !.execution_control_flow = "Stopped"]
    /\ pc' = "idle"
    /\ left' = IF pc = "exit" THEN Some(console.command_buffer) ELSE None
    /\ UNCHANGED <<trace, entry_buffer, scripts, notConsole>>

ConsoleNext ==
    \/ RegisterBuiltinCommands
    \/ \E name \in CustomCommands : RegisterCommand(name)
    \/ \E text \in Scripts : AppendScript(text)
    \/ \E text \in Scripts : PrependScript(text)
    \/ ExecuteEnter
    \/ ExecuteIterate
    \/ ExecuteReturn

\* The console fed with the alias scripts.
AliasNext ==
    \/ RegisterBuiltinCommands
    \/ \E text \in AliasScripts : AppendScript(text)
    \/ ExecuteEnter
    \/ ExecuteIterate
    \/ ExecuteReturn

\* The console fed with the dispatch scripts.
DispatchNext ==
    \/ RegisterBuiltinCommands
    \/ \E name \in CustomCommands : RegisterCommand(name)
    \/ \E text \in DispatchScripts : AppendScript(text)
    \/ \E text \in DispatchScripts : PrependScript(text)
    \/ ExecuteEnter
    \/ ExecuteIterate
    \/ ExecuteReturn

(***************************************************************************)
(* Shard router and Universe workers (universe.rs).  The router thread     *)
(* runs UniverseServer::step in a loop; every shard has a worker thread    *)
(* that runs Universe::step in a loop.  The threads interleave at their    *)
(* channel operations.                                                     *)
(***************************************************************************)
NumShards == 2
ShardIds == 0..(NumShards - 1)
WorldIds == 0..(MaxWorlds - 1)

\* The connections whose commands arrive, and the player ids they may name.
ShardConnections == {1}
ShardPlayers == {0}
ShardModes ==
    {[kind |-> "Demo", path |-> "demo1.dem"],
     [kind |-> "Demo", path |-> "missing.dem"]}
NoMode == [kind |-> "None", path |-> ""]
NoSnapshot == [entities |-> <<>>, events |-> <<>>]

\* The commands the wire may deliver (MessageWrapper<WorldMessage> holding a
\* WorldCommand).  Spawn carries no world id: the router mints it.
WireCommands ==
    {[kind |-> "Spawn", connection_id |-> c, world_id |-> 0, player_id |-> 0,
      world_mode |-> m] : c \in ShardConnections, m \in ShardModes}
    \cup {[kind |-> k, connection_id |-> c, world_id |-> w, player_id |-> 0,
           world_mode |-> NoMode] :
            k \in {"Join", "Despawn"}, c \in ShardConnections, w \in WorldIds}
    \cup {[kind |-> k, connection_id |-> c, world_id |-> w, player_id |-> p,
           world_mode |-> NoMode] :
            k \in {"Play", "Leave"}, c \in ShardConnections, w \in WorldIds,
            p \in ShardPlayers}

\* A variant of the routing rule that sends every world to the first shard.
shard_index_first(world_id) == 0

\* shard_routing: u64::from(world_id) as usize % self.num_shards
shard_index(world_id) == world_id % NumShards

\* UniverseMessage::Command; seq is the position of the message in the
\* order the router sent its messages, or 0 for a message the histories do
\* not follow.
UniverseMessage(cmd, world_id, seq) ==
    [kind |-> cmd.kind, connection_id |-> cmd.connection_id, world_id |-> world_id,
     player_id |-> cmd.player_id, world_mode |-> cmd.world_mode, seq |-> seq]

\* MessageWrapper<WorldMessage> on a shard's outbound channel.
WorldMessage(kind, connection_id, world_id, snapshot) ==
    [kind |-> kind, connection_id |-> connection_id, world_id |-> world_id,
     snapshot |-> snapshot]

\* WorldServer::new(world_id, world_mode, &asset_manager) as on_spawn calls
\* it: a new world server with the mode's content loaded, or the load error.
WorldServerSpawn(world_mode) == WorldLoad(WorldServerNew, world_mode)

\* The elements of a finite set of integers as a sequence, ascending or
\* descending: the orders a map with at most two keys can be iterated in.
RECURSIVE SetToSeq(_, _)
SetToSeq(set, ascending) ==
    IF set = {} THEN <<>>
    ELSE LET x == IF ascending
                  THEN CHOOSE y \in set : \A z \in set : y <= z
                  ELSE CHOOSE y \in set : \A z \in set : y >= z
         IN  <<x>> \o SetToSeq(set \ {x}, ascending)

\* The snapshot messages of one world's step, one per active connection.
SnapshotMessages(w, world_id, snapshot) ==
    LET cs == SetToSeq(active_connections(w.connections), TRUE)
    IN  [i \in DOMAIN cs |-> WorldMessage("Snapshot", cs[i], world_id, snapshot)]

\* The second loop of Universe::step over the worlds in the given order,
\* started with the messages sent so far: the worlds after their step and the
\* messages sent.
RECURSIVE StepWorlds(_, _, _, _)
StepWorlds(servers, order, t, sent) ==
    IF order = <<>> THEN [servers |-> servers, sent |-> sent]
    ELSE LET world_id == Head(order)
             r == WorldStep(servers[world_id], t)
         IN  StepWorlds([servers EXCEPT ![world_id] = r.world], Tail(order), t,
                        sent \o (IF IsSome(r.snapshot)
                                 THEN SnapshotMessages(r.world, world_id, Unwrap(r.snapshot))
                                 ELSE <<>>))

\* One arm of the match in Universe::step: the worlds after the message, the
\* messages sent, whether a player id was minted and whether step returned Err.
HandleMessage(servers, m, next_player_id) ==
    LET known == m.world_id \in DOMAIN servers
        same == [servers |-> servers, sent |-> <<>>, minted |-> FALSE, err |-> FALSE]
        with(w) == [same EXCEPT !.servers = MapInsert(servers, m.world_id, w)]
    IN  CASE m.kind = "Spawn" ->
               LET r == WorldServerSpawn(m.world_mode)
               IN  IF r.ok
                   THEN [with(r.world) EXCEPT !.sent =
                            <<WorldMessage("Spawned", m.connection_id, m.world_id, NoSnapshot)>>]
                   ELSE [same EXCEPT !.err = TRUE]
          [] m.kind = "Despawn" ->
               [same EXCEPT !.servers = MapRemove(servers, m.world_id),
                            !.sent = <<WorldMessage("Despawned", m.connection_id, m.world_id,
                                                    NoSnapshot)>>]
          [] m.kind = "Join" /\ known ->
               [with(on_join(servers[m.world_id], m.connection_id, next_player_id))
                  EXCEPT !.minted = TRUE,
                         !.sent = <<WorldMessage("Joined", m.connection_id, m.world_id,
                                                 NoSnapshot)>>]
          [] m.kind = "Leave" /\ known ->
               [with(on_leave(servers[m.world_id], m.connection_id, m.player_id))
                  EXCEPT !.sent = <<WorldMessage("Left", m.connection_id, m.world_id,
                                                 NoSnapshot)>>]
          [] m.kind = "Play" /\ known ->
               with(on_play(servers[m.world_id], m.connection_id, m.player_id))
          [] OTHER -> same

ShardInit ==
    /\ WORLD_ID_GENERATOR = 0
    /\ router = [pc |-> "inbound", shard |-> 0]
    /\ universe_queue = [s \in ShardIds |-> <<>>]
    /\ world_queue = [s \in ShardIds |-> <<>>]
    /\ world_servers = [s \in ShardIds |-> EmptyMap]
    /\ worker = [s \in ShardIds |-> "running"]
    /\ routed = <<>>
    /\ observed = [s \in ShardIds |-> <<>>]

\* UniverseServer::step, first loop: try_recv_message returned a command; the
\* matching on_* handler mints the world id of a Spawn and calls shard_routing.
\* Sending to a worker that panicked fails, and step returns the error.
RouterRoute(cmd) ==
    /\ router.pc = "inbound"
    /\ Len(routed) < MaxMessages
    /\ cmd.kind = "Spawn" => WORLD_ID_GENERATOR < MaxWorlds
    /\ LET world_id == IF cmd.kind = "Spawn" THEN WORLD_ID_GENERATOR ELSE cmd.world_id
           s == shard_index(world_id)
           m == UniverseMessage(cmd, world_id, Len(routed) + 1)
       IN  /\ WORLD_ID_GENERATOR' = IF cmd.kind = "Spawn" THEN WORLD_ID_GENERATOR + 1
                                    ELSE WORLD_ID_GENERATOR
           /\ IF worker[s] = "panicked"
              THEN /\ router' = [pc |-> "failed", shard |-> 0]
                   /\ UNCHANGED <<universe_queue, routed>>
              ELSE /\ universe_queue' = [universe_queue EXCEPT ![s] = Append(@, m)]
                   /\ routed' = Append(routed, m)
                   /\ UNCHANGED router
    /\ UNCHANGED <<world_queue, world_servers, worker, observed,
                   now, PLAYER_ID_GENERATOR, notShard>>

\* UniverseServer::step: try_recv_message returned None; the second loop starts.
RouterPoll ==
    /\ router.pc = "inbound"
    /\ router' = [pc |-> "outbound", shard |-> 0]
    /\ UNCHANGED <<WORLD_ID_GENERATOR, universe_queue, world_queue, world_servers, worker,
                   routed, observed, now, PLAYER_ID_GENERATOR, notShard>>

\* UniverseServer::step, second loop: a message of the shard at hand is
\* forwarded to the wire.
RouterForward ==
    /\ router.pc = "outbound"
    /\ world_queue[router.shard] # <<>>
    /\ world_queue' = [world_queue EXCEPT ![router.shard] = Tail(@)]
    /\ UNCHANGED <<WORLD_ID_GENERATOR, router, universe_queue, world_servers, worker,
                   routed, observed, now, PLAYER_ID_GENERATOR, notShard>>

\* UniverseServer::step, second loop: the shard at hand has nothing more; the
\* next shard is polled, or step returns and is called again.
RouterAdvance ==
    /\ router.pc = "outbound"
    /\ world_queue[router.shard] = <<>>
    /\ router' = IF router.shard + 1 < NumShards
                 THEN [pc |-> "outbound", shard |-> router.shard + 1]
                 ELSE [pc |-> "inbound", shard |-> 0]
    /\ UNCHANGED <<WORLD_ID_GENERATOR, universe_queue, world_queue, world_servers, worker,
                   routed, observed, now, PLAYER_ID_GENERATOR, notShard>>

\* Universe::step, first loop: try_recv returned a message.  An Err of the
\* handler leaves step through `?` and the worker thread panics in unwrap.
WorkerReceive(s) ==
    /\ router.pc # "failed"
    /\ worker[s] = "running"
    /\ universe_queue[s] # <<>>
    /\ LET m == Head(universe_queue[s])
           r == HandleMessage(world_servers[s], m, PLAYER_ID_GENERATOR)
       IN  /\ universe_queue' = [universe_queue EXCEPT ![s] = Tail(@)]
           /\ observed' = IF m.seq = 0 THEN observed
                          ELSE [observed EXCEPT ![s] = Append(@, m)]
           /\ world_servers' = [world_servers EXCEPT ![s] = r.servers]
           /\ world_queue' = [world_queue EXCEPT ![s] = @ \o r.sent]
           /\ worker' = [worker EXCEPT ![s] = IF r.err THEN "panicked" ELSE @]
           /\ PLAYER_ID_GENERATOR' = IF r.minted THEN PLAYER_ID_GENERATOR + 1
                                     ELSE PLAYER_ID_GENERATOR
    /\ UNCHANGED <<WORLD_ID_GENERATOR, router, routed, now, notShard>>

\* Universe::step: try_recv found the channel empty; every world is stepped
\* and its snapshot sent to its active connections.
WorkerStepWorlds(s) ==
    /\ router.pc # "failed"
    /\ worker[s] = "running"
    /\ universe_queue[s] = <<>>
    /\ \E ascending \in BOOLEAN :
         LET r == StepWorlds(world_servers[s],
                             SetToSeq(DOMAIN world_servers[s], ascending), now, <<>>)
         IN  /\ world_servers' = [world_servers EXCEPT ![s] = r.servers]
             /\ world_queue' = [world_queue EXCEPT ![s] = @ \o r.sent]
    /\ UNCHANGED <<WORLD_ID_GENERATOR, router, universe_queue, worker, routed, observed,
                   now, PLAYER_ID_GENERATOR, notShard>>

\* Time passes.
ShardElapse ==
    /\ router.pc # "failed"
    /\ now + 3 * ClockStep <= MaxClock * ClockStep
    /\ now' = now + 3 * ClockStep
    /\ UNCHANGED <<shardVars, PLAYER_ID_GENERATOR, notShard>>

ShardNext ==
    \/ \E cmd \in WireCommands : RouterRoute(cmd)
    \/ RouterPoll
    \/ RouterForward
    \/ RouterAdvance
    \/ \E s \in ShardIds : WorkerReceive(s)
    \/ \E s \in ShardIds : WorkerStepWorlds(s)
    \/ ShardElapse

(***************************************************************************)
(* The QUIC message channel (quic.rs), one direction of one connection:    *)
(* send_message puts the message on the sender's channel; the sender task  *)
(* takes the messages off that channel in order and spawns one             *)
(* serialize_and_send_message task per message; every such task sends its  *)
(* message as a datagram or on a unidirectional stream of its own, and the *)
(* peer's stream handler puts what it reads on the receive channel that    *)
(* try_recv_message drains.  The spawned tasks run concurrently on the     *)
(* multi-threaded runtime, so any unfinished task may be the next to       *)
(* finish.  A message carries the history tag seq, its position in the     *)
(* send order.                                                             *)
(***************************************************************************)
NetCommands == [kind : {"Play", "Pause"}, world_id : WorldIds]

NetInit ==
    /\ send_buffer = <<>>
    /\ send_tasks = {}
    /\ recv_buffer = <<>>
    /\ sent_order = <<>>
    /\ recv_order = <<>>

\* QuicClientSender::send_message
SendMessage(message) ==
    /\ Len(sent_order) < MaxSends
    /\ send_buffer' = Append(send_buffer, [message |-> message, seq |-> Len(sent_order) + 1])
    /\ sent_order' = Append(sent_order, message)
    /\ UNCHANGED <<send_tasks, recv_buffer, recv_order>>
    /\ UNCHANGED notNet

\* ClientSenderTask::run: one iteration of the loop
SenderTaskRun ==
    /\ send_buffer # <<>>
    /\ send_buffer' = Tail(send_buffer)
    /\ send_tasks' = send_tasks \cup {Head(send_buffer)}
    /\ UNCHANGED <<recv_buffer, sent_order, recv_order>>
    /\ UNCHANGED notNet

\* serialize_and_send_message succeeds and the peer's handler reads the message
SerializeAndSendMessage(task) ==
    /\ task \in send_tasks
    /\ send_tasks' = send_tasks \ {task}
    /\ recv_buffer' = Append(recv_buffer, task)
    /\ UNCHANGED <<send_buffer, sent_order, recv_order>>
    /\ UNCHANGED notNet

\* serialize_and_send_message fails: the error is logged and the message is gone
SerializeAndSendMessageErr(task) ==
    /\ task \in send_tasks
    /\ send_tasks' = send_tasks \ {task}
    /\ UNCHANGED <<send_buffer, recv_buffer, sent_order, recv_order>>
    /\ UNCHANGED notNet

\* QuicServerReceiver::try_recv_message returning Some
TryRecvMessage ==
    /\ recv_buffer # <<>>
    /\ recv_buffer' = Tail(recv_buffer)
    /\ recv_order' = Append(recv_order, Head(recv_buffer))
    /\ UNCHANGED <<send_buffer, send_tasks, sent_order>>
    /\ UNCHANGED notNet

NetNext ==
    \/ \E message \in NetCommands : SendMessage(message)
    \/ SenderTaskRun
    \/ \E task \in send_tasks : SerializeAndSendMessage(task)
    \/ \E task \in send_tasks : SerializeAndSendMessageErr(task)
    \/ TryRecvMessage

(***************************************************************************)
(* The router thread fed by its receive channel without end.  The peers'   *)
(* stream handlers put commands on recv_buffer at any time; the first loop *)
(* of UniverseServer::step goes on for as long as try_recv_message returns *)
(* a message and the second loop is reached when it returns None.  The     *)
(* messages of this traffic carry seq 0.  The traffic is bounded in what   *)
(* is pending at one time (MaxBacklog) and in the worlds it spawns, never  *)
(* in how long it lasts.                                                   *)
(***************************************************************************)
StreamCommands ==
    {cmd \in WireCommands : cmd.kind \in {"Spawn", "Play"}}

Pending == Len(recv_buffer) + Len(universe_queue[0]) + Len(universe_queue[1])

PendingSpawns ==
    Cardinality({i \in DOMAIN recv_buffer : recv_buffer[i].message.kind = "Spawn"})

\* spawn_stream_handler: a command read from a peer is put on the channel
StreamArrive(cmd) ==
    /\ Pending < MaxBacklog
    /\ cmd.kind = "Spawn" => WORLD_ID_GENERATOR + PendingSpawns < MaxWorlds
    /\ recv_buffer' = Append(recv_buffer, [message |-> cmd, seq |-> 0])
    /\ UNCHANGED <<send_buffer, send_tasks, sent_order, recv_order>>
    /\ UNCHANGED notNet

\* UniverseServer::step, first loop: try_recv_message returned Some
RouterTryRecvSome ==
    /\ router.pc = "inbound"
    /\ recv_buffer # <<>>
    /\ recv_buffer' = Tail(recv_buffer)
    /\ LET cmd == Head(recv_buffer).message
           world_id == IF cmd.kind = "Spawn" THEN WORLD_ID_GENERATOR ELSE cmd.world_id
           s == shard_index(world_id)
       IN  /\ WORLD_ID_GENERATOR' = IF cmd.kind = "Spawn" THEN WORLD_ID_GENERATOR + 1
                                    ELSE WORLD_ID_GENERATOR
           /\ IF worker[s] = "panicked"
              THEN /\ router' = [pc |-> "failed", shard |-> 0]
                   /\ UNCHANGED universe_queue
              ELSE /\ universe_queue' = [universe_queue EXCEPT ![s] =
                                            Append(@, UniverseMessage(cmd, world_id, 0))]
                   /\ UNCHANGED router
    /\ UNCHANGED <<world_queue, world_servers, worker, routed, observed>>
    /\ UNCHANGED <<send_buffer, send_tasks, sent_order, recv_order>>
    /\ UNCHANGED <<world, minted_for, last_step, loads, tick_log, demVars, consoleVars,
                   clientVars, now, PLAYER_ID_GENERATOR, idVars, assetVars, inputVars>>

\* UniverseServer::step, first loop: try_recv_message returned None
RouterTryRecvNone ==
    /\ recv_buffer = <<>>
    /\ RouterPoll

RouterStep == RouterTryRecvSome \/ RouterTryRecvNone \/ RouterForward \/ RouterAdvance

WorkerStep(s) == WorkerReceive(s) \/ WorkerStepWorlds(s)

StreamNext ==
    \/ \E cmd \in StreamCommands : StreamArrive(cmd)
    \/ RouterTryRecvSome
    \/ RouterTryRecvNone
    \/ RouterForward
    \/ RouterAdvance
    \/ \E s \in ShardIds : WorkerReceive(s)
    \/ \E s \in ShardIds : WorkerStepWorlds(s)

(***************************************************************************)
(* WorldClient (world.rs).  The resources hold the WorldId and PlayerId of *)
(* the joined world as options.  Every operation gives the client after    *)
(* the call, whether the call returned Ok and the messages it sent.        *)
(***************************************************************************)
WorldClientNew ==
    [state |-> "Stopped", world_id |-> None, player_id |-> None, notifications |-> <<>>]

ClientCommand(kind, world_id, player_id) ==
    [kind |-> kind, world_id |-> world_id, player_id |-> player_id]

Failed(c) == [client |-> c, ok |-> FALSE, sent |-> <<>>]

join(c, world_id) ==
    IF IsSome(c.world_id) THEN Failed(c)
    ELSE [client |-> c, ok |-> TRUE, sent |-> <<ClientCommand("Join", world_id, 0)>>]

leave(c) ==
    IF ~IsSome(c.world_id) THEN [client |-> c, ok |-> TRUE, sent |-> <<>>]
    ELSE [client |-> c, ok |-> TRUE,
          sent |-> <<ClientCommand("Leave", Unwrap(c.world_id), Unwrap(c.player_id))>>]

\* A variant of pause that tests the joined world only, not the state.
pause_any_state(c) ==
    IF ~IsSome(c.world_id) THEN Failed(c)
    ELSE [client |-> [c EXCEPT !.state = "Paused"], ok |-> TRUE,
          sent |-> <<ClientCommand("Pause", Unwrap(c.world_id), Unwrap(c.player_id))>>]

play(c) ==
    IF ~IsSome(c.world_id) THEN Failed(c)
    ELSE IF c.state # "Stopped" THEN Failed(c)
    ELSE [client |-> [c EXCEPT !.state = "Playing"], ok |-> TRUE,
          sent |-> <<ClientCommand("Play", Unwrap(c.world_id), Unwrap(c.player_id))>>]

pause(c) ==
    IF ~IsSome(c.world_id) THEN Failed(c)
    ELSE IF c.state # "Playing" THEN Failed(c)
    ELSE [client |-> [c EXCEPT !.state = "Paused"], ok |-> TRUE,
          sent |-> <<ClientCommand("Pause", Unwrap(c.world_id), Unwrap(c.player_id))>>]

resume(c) ==
    IF ~IsSome(c.world_id) THEN Failed(c)
    ELSE IF c.state # "Paused" THEN Failed(c)
    ELSE [client |-> [c EXCEPT !.state = "Playing"], ok |-> TRUE,
          sent |-> <<ClientCommand("Resume", Unwrap(c.world_id), Unwrap(c.player_id))>>]

stop(c) ==
    IF ~IsSome(c.world_id) THEN Failed(c)
    ELSE IF c.state = "Stopped" THEN Failed(c)
    ELSE [client |-> [c EXCEPT !.state = "Stopped"], ok |-> TRUE,
          sent |-> <<ClientCommand("Stop", Unwrap(c.world_id), Unwrap(c.player_id))>>]

on_joined(c, world_id, player_id) ==
    [c EXCEPT !.world_id = Some(world_id), !.player_id = Some(player_id)]

on_left(c) == [c EXCEPT !.world_id = None, !.player_id = None]

\* The loop of WorldClient::step over the messages try_recv_message returns.
RECURSIVE StepMessages(_, _)
StepMessages(c, messages) ==
    IF messages = <<>> THEN c
    ELSE LET m == Head(messages)
             handled == CASE m.kind = "Joined" -> on_joined(c, m.world_id, m.player_id)
                          [] m.kind = "Left" -> on_left(c)
                          [] OTHER -> c
             noted == IF m.kind \in {"Spawned", "Despawned", "Joined", "Left"}
                      THEN [handled EXCEPT !.notifications = Append(@, m)]
                      ELSE handled
         IN  StepMessages(noted, Tail(messages))

step(c, messages) ==
    [client |-> StepMessages([c EXCEPT !.notifications = <<>>], messages),
     ok |-> TRUE, sent |-> <<>>]

ClientOps == {"leave", "play", "pause", "resume", "stop"}

Call(op, c) ==
    CASE op = "leave" -> leave(c)
      [] op = "play" -> play(c)
      [] op = "pause" -> pause(c)
      [] op = "resume" -> resume(c)
      [] op = "stop" -> stop(c)

\* The worlds the client may be told it joined.
ClientWorlds == {0, 1}

\* The messages the server may send to the client.
ClientMessages ==
    {ClientCommand("Joined", w, p) : w \in ClientWorlds, p \in ShardPlayers}
    \cup {ClientCommand(k, 0, 0) : k \in {"Left", "Snapshot"}}

ClientInit ==
    /\ client = WorldClientNew
    /\ inbox = <<>>
    /\ outbox = <<>>
    /\ last_call = None

Called(op, r) ==
    /\ Len(outbox) + Len(r.sent) <= MaxOutbox
    /\ client' = r.client
    /\ outbox' = outbox \o r.sent
    /\ last_call' = Some([op |-> op, before |-> client, after |-> r.client, ok |-> r.ok,
                          sent |-> r.sent])
    /\ UNCHANGED notClient

\* The host calls leave, play, pause, resume or stop.
ClientCall(op) ==
    /\ Called(op, Call(op, client))
    /\ UNCHANGED inbox

\* The host calls join.
ClientJoin(world_id) ==
    /\ Called("join", join(client, world_id))
    /\ UNCHANGED inbox

\* The host calls step: every message received so far is handled.
ClientStep ==
    /\ Called("step", step(client, inbox))
    /\ inbox' = <<>>

\* The sender task takes a message off the send channel (ClientSenderTask::run).
ClientSenderTake ==
    /\ outbox # <<>>
    /\ outbox' = Tail(outbox)
    /\ last_call' = None
    /\ UNCHANGED <<client, inbox>>
    /\ UNCHANGED notClient

\* The receiver task puts a message of the server on the receive channel.
ClientReceive(message) ==
    /\ Len(inbox) < MaxInbox
    /\ inbox' = Append(inbox, message)
    /\ last_call' = None
    /\ UNCHANGED <<client, outbox>>
    /\ UNCHANGED notClient

ClientNext ==
    \/ \E op \in ClientOps : ClientCall(op)
    \/ \E world_id \in ClientWorlds : ClientJoin(world_id)
    \/ ClientStep
    \/ \E message \in ClientMessages : ClientReceive(message)
    \/ ClientSenderTake

(***************************************************************************)
(* PlayerId::new and WorldId::new (world.rs).  Each is one fetch_add on a  *)
(* process-wide AtomicU64; threads call them in any interleaving.  The     *)
(* counters are 64 bits wide and wrap; MaxIds keeps the model away from    *)
(* the wrap-around.                                                        *)
(***************************************************************************)
IdThreads == {1, 2, 3}

\* A variant of fetch_add that returns the value and stores nothing.
fetch_add_no_store(counter, val) ==
    [previous |-> counter, counter |-> counter]

\* AtomicU64::fetch_add(val, Ordering::Relaxed): one indivisible
\* read-modify-write that returns the previous value.
fetch_add(counter, val) ==
    [previous |-> counter, counter |-> counter + val]

IdInit == issued = <<>>

PlayerIdNew(t) ==
    /\ Len(issued) < MaxIds
    /\ LET r == fetch_add(PLAYER_ID_GENERATOR, 1)
       IN  /\ PLAYER_ID_GENERATOR' = r.counter
           /\ issued' = Append(issued, [generator |-> "PlayerId", thread |-> t,
                                         id |-> r.previous])
    /\ UNCHANGED <<WORLD_ID_GENERATOR, notIds>>

WorldIdNew(t) ==
    /\ Len(issued) < MaxIds
    /\ LET r == fetch_add(WORLD_ID_GENERATOR, 1)
       IN  /\ WORLD_ID_GENERATOR' = r.counter
           /\ issued' = Append(issued, [generator |-> "WorldId", thread |-> t,
                                         id |-> r.previous])
    /\ UNCHANGED <<PLAYER_ID_GENERATOR, notIds>>

IdNext ==
    \/ \E t \in IdThreads : PlayerIdNew(t)
    \/ \E t \in IdThreads : WorldIdNew(t)

(***************************************************************************)
(* AssetManager and Pak (quake-asset/src/lib.rs, pak/mod.rs).  The base    *)
(* directory holds loose entries and .pak files; a file name is the        *)
(* sequence of its bytes, compared as Path::file_name compares.  A content *)
(* tells where the bytes lie and whether they decode as the typed asset.   *)
(***************************************************************************)
AssetNames == {"a.dem", "b.dem"}

\* by_name::<Vec<u8>> and by_name::<Dem>
AssetTypes == {"bytes", "dem"}

\* pak0.pak, pak10.pak and pak9.pak
Pak0 == <<112, 97, 107, 48, 46, 112, 97, 107>>
Pak10 == <<112, 97, 107, 49, 48, 46, 112, 97, 107>>
Pak9 == <<112, 97, 107, 57, 46, 112, 97, 107>>

PakFileNames == {Pak0, Pak10, Pak9}

OverlayContent(valid) == [origin |-> "overlay", file |-> <<>>, valid |-> valid]
ArchiveContent(file, valid) == [origin |-> "archive", file |-> file, valid |-> valid]

\* The loose entries a name can have under the base directory.
OverlayEntries ==
    {[kind |-> "dir", content |-> OverlayContent(FALSE)]}
    \cup {[kind |-> "file", content |-> OverlayContent(valid)] : valid \in BOOLEAN}

\* The directories of entries a .pak file can have: for each name, absent,
\* well-formed or malformed.
PakDirectories(file) ==
    UNION {[names -> {ArchiveContent(file, valid) : valid \in BOOLEAN}] :
              names \in SUBSET AssetNames}

ReadOk(content) == [ok |-> TRUE, content |-> content]
ReadErr == [ok |-> FALSE, content |-> OverlayContent(FALSE)]

\* <[u8] as Ord>::cmp(a, b) = Less
RECURSIVE LexLess(_, _)
LexLess(a, b) ==
    IF b = <<>> THEN FALSE
    ELSE IF a = <<>> THEN TRUE
    ELSE IF Head(a) # Head(b) THEN Head(a) < Head(b)
    ELSE LexLess(Tail(a), Tail(b))

\* The comparator of find_pak_files, |a, b| b.file_name().cmp(a.file_name()):
\* a is placed before b when b's name is less than a's.
PakBefore(a, b) == LexLess(b, a)

\* pak_files.sort_by(..) over the files glob found.
RECURSIVE SortPakFiles(_)
SortPakFiles(files) ==
    IF files = {} THEN <<>>
    ELSE LET first == CHOOSE f \in files : \A g \in files \ {f} : PakBefore(f, g)
         IN  <<first>> \o SortPakFiles(files \ {first})

\* Pak::new: one PakArchive per file, in the sorted order.
PakNew(paks) ==
    LET files == SortPakFiles(DOMAIN paks)
    IN  [i \in DOMAIN files |-> [path |-> files[i], entries |-> paks[files[i]]]]

\* T::from_bytes
from_bytes(type, content) ==
    IF type = "bytes" \/ content.valid THEN ReadOk(content) ELSE ReadErr

\* AssetManager::load_from_filesystem: canonicalize fails for a missing
\* entry, fs::read fails for a directory, from_bytes may fail.
load_from_filesystem(dir, type, name) ==
    IF name \notin DOMAIN dir.files THEN ReadErr
    ELSE IF dir.files[name].kind # "file" THEN ReadErr
    ELSE from_bytes(type, dir.files[name].content)

\* Pak::by_name: the first archive whose directory has the name decides.
RECURSIVE PakByName(_, _, _)
PakByName(pak, type, name) ==
    IF pak = <<>> THEN ReadErr
    ELSE IF name \in DOMAIN Head(pak).entries
         THEN from_bytes(type, Head(pak).entries[name])
         ELSE PakByName(Tail(pak), type, name)

\* AssetManager::by_name
by_name(dir, pak, type, name) ==
    LET result == load_from_filesystem(dir, type, name)
    IN  IF result.ok THEN result ELSE PakByName(pak, type, name)

AssetInit ==
    /\ base_dir = [files |-> EmptyMap, paks |-> EmptyMap]
    /\ archives = None
    /\ last_read = None
    /\ decoded = None

\* A .pak file is put under the base directory before the manager is made.
WritePak(file, entries) ==
    /\ archives = None
    /\ file \notin DOMAIN base_dir.paks
    /\ base_dir' = [base_dir EXCEPT !.paks = MapInsert(@, file, entries)]
    /\ UNCHANGED <<archives, last_read, decoded, notAsset>>

\* AssetManager::new
AssetManagerNew ==
    /\ archives = None
    /\ archives' = Some(PakNew(base_dir.paks))
    /\ UNCHANGED <<base_dir, last_read, decoded, notAsset>>

\* A loose entry is created or replaced under the base directory.
WriteFile(name, entry) ==
    /\ base_dir' = [base_dir EXCEPT !.files = MapInsert(@, name, entry)]
    /\ last_read' = None
    /\ UNCHANGED <<archives, decoded, notAsset>>

RemoveFile(name) ==
    /\ name \in DOMAIN base_dir.files
    /\ base_dir' = [base_dir EXCEPT !.files = MapRemove(@, name)]
    /\ last_read' = None
    /\ UNCHANGED <<archives, decoded, notAsset>>

ByName(type, name) ==
    /\ IsSome(archives)
    /\ last_read' = Some([type |-> type, name |-> name,
                          result |-> by_name(base_dir, Unwrap(archives), type, name)])
    /\ UNCHANGED <<base_dir, archives, decoded, notAsset>>

AssetNext ==
    \/ \E file \in PakFileNames : \E entries \in PakDirectories(file) : WritePak(file, entries)
    \/ AssetManagerNew
    \/ \E name \in AssetNames, entry \in OverlayEntries : WriteFile(name, entry)
    \/ \E name \in AssetNames : RemoveFile(name)
    \/ \E type \in AssetTypes, name \in AssetNames : ByName(type, name)

(***************************************************************************)
(* Decoders (quake-asset/src/pak/mod.rs, mdl.rs, dem.rs, bsp.rs).  A       *)
(* reader is the sequence of the fields still to be read, each field the   *)
(* number the little-endian read of its width returns.  The floats of the  *)
(* model are integers, which f32 holds exactly.                            *)
(***************************************************************************)
\* pak::read_vec3: three f32 in file order, then the axis swap.
read_vec3(reader) ==
    LET vector == <<reader[1], reader[2], reader[3]>>
    IN  [value |-> <<vector[1], vector[3], -vector[2]>>, reader |-> Drop(reader, 3)]

\* ReadBytesExt::read_i8 of one byte.
read_i8(byte) == IF byte >= 128 THEN byte - 256 ELSE byte

\* pak::read_i8_vec3
read_i8_vec3(reader) ==
    LET vector == <<read_i8(reader[1]), read_i8(reader[2]), read_i8(reader[3])>>
    IN  [value |-> <<vector[1], vector[3], -vector[2]>>, reader |-> Drop(reader, 3)]

\* Vec3 * Vec3 and Vec3 + Vec3 of glam, component by component.
Mul3(a, b) == <<a[1] * b[1], a[2] * b[2], a[3] * b[3]>>
Add3(a, b) == <<a[1] + b[1], a[2] + b[2], a[3] + b[3]>>

\* pak::read_scaled_position
read_scaled_position(reader, scale, translate) ==
    LET position == read_i8_vec3(reader)
    IN  [value |-> Add3(Mul3(position.value, scale), translate),
         reader |-> position.reader]

\* Mdl::from_slice reads scale and translate from the header with read_vec3
\* and FrameSingle::from_reader decodes each vertex with them.
MdlVertexPosition(header, vertex) ==
    LET scale == read_vec3(header)
        translate == read_vec3(scale.reader)
    IN  read_scaled_position(vertex, scale.value, translate.value).value

\* dem::read_coord: an i16 in eighths of a unit; the model reads multiples
\* of 8 only.
read_coord(raw) == raw \div 8

\* dem::read_angle: an i8 in 256ths of a turn; the model reads multiples of
\* 32 only.
read_angle(byte) == (read_i8(byte) * 45) \div 32

\* dem::read_xyz_coords
read_xyz_coords(reader) ==
    LET vector == <<read_coord(reader[1]), read_coord(reader[2]), read_coord(reader[3])>>
    IN  [value |-> <<vector[1], vector[3], -vector[2]>>, reader |-> Drop(reader, 3)]

\* The loop of the SpawnStatic and SpawnBaseline arms: origin[i] and
\* angles[i] are read in turn and stored at index i.
ReadOriginAngles(reader) ==
    [origin |-> <<read_coord(reader[1]), read_coord(reader[3]), read_coord(reader[5])>>,
     angles |-> <<read_angle(reader[2]), read_angle(reader[4]), read_angle(reader[6])>>]

OpDamage == 19
OpSpawnStatic == 20
OpSpawnBaseline == 22

\* EventIterator::next for the opcodes 0x13, 0x14 and 0x16; reader holds the
\* fields after the opcode byte.
EventIteratorNext(opcode, reader) ==
    CASE opcode = OpDamage ->
           [type |-> "Damage", origin |-> read_xyz_coords(Drop(reader, 2)).value]
      [] opcode = OpSpawnStatic ->
           [type |-> "SpawnStatic", origin |-> ReadOriginAngles(Drop(reader, 4)).origin]
      [] opcode = OpSpawnBaseline ->
           [type |-> "SpawnBaseline", origin |-> ReadOriginAngles(Drop(reader, 5)).origin]

\* The fields of an event that carries the origin coords (raw i16 values).
EventFields(opcode, coords) ==
    CASE opcode = OpDamage -> <<0, 0>> \o coords
      [] opcode = OpSpawnStatic ->
           <<1, 0, 0, 0, coords[1], 0, coords[2], 32, coords[3], 0>>
      [] opcode = OpSpawnBaseline ->
           <<1, 1, 0, 0, 0, coords[1], 0, coords[2], 32, coords[3], 0>>

\* NodeChildType::from_reader
NodeChildTypeFromReader(value) ==
    IF value < 0 THEN [type |-> "Leaf", index |-> -value - 1]
    ELSE [type |-> "Branch", index |-> value]

\* Node::from_reader; the fields are plane index, two children, the bounding
\* box, face index and face count.
NodeFromReader(reader) ==
    [plane_index |-> reader[1],
     children |-> <<NodeChildTypeFromReader(reader[2]), NodeChildTypeFromReader(reader[3])>>,
     face_index |-> reader[10],
     faces_count |-> reader[11]]

\* Face::from_reader; the fields are plane index, side, edge index, edge
\* count, tex-info index, four light styles and the light offset.
FaceFromReader(reader) ==
    [plane_index |-> reader[1],
     edge_index |-> reader[3],
     edge_count |-> reader[4],
     tex_info_index |-> reader[5]]

\* Plane::from_reader
PlaneFromReader(reader) ==
    [normal |-> read_vec3(reader).value, distance |-> reader[4]]

BspVersion == 29

\* Bsp::from_slice and read_bsp_data: the version is checked, then every
\* lump is decoded entry by entry; a lump of the model is the sequence of
\* its entries.
BspFromSlice(file) ==
    IF file.version # BspVersion THEN [ok |-> FALSE]
    ELSE [ok |-> TRUE,
          planes |-> [i \in DOMAIN file.planes |-> PlaneFromReader(file.planes[i])],
          nodes |-> [i \in DOMAIN file.nodes |-> NodeFromReader(file.nodes[i])],
          texture_info |-> file.texture_info,
          faces |-> [i \in DOMAIN file.faces |-> FaceFromReader(file.faces[i])],
          leaves |-> file.leaves,
          surface_edges |-> file.surface_edges]

\* Classname::try_from
ClassnameTryFrom(value) ==
    CASE value = "worldspawn" -> Some("WorldSpawn")
      [] value = "info_player_start" -> Some("InfoPlayerStart")
      [] OTHER -> None

RecognizedKeys == {"classname", "message", "targetname"}

\* One arm of the match in build_entity_from_pairs: Some(component), or None
\* where the arm panics.
BuildComponent(pair) ==
    CASE pair.key = "classname" ->
           IF IsSome(ClassnameTryFrom(pair.value))
           THEN Some([key |-> "classname", value |-> Unwrap(ClassnameTryFrom(pair.value))])
           ELSE None
      [] pair.key = "message" -> Some([key |-> "message", value |-> pair.value])
      [] pair.key = "targetname" -> Some([key |-> "targetname", value |-> pair.value])
      [] OTHER -> None

\* Entity::build_entity_from_pairs
RECURSIVE build_entity_from_pairs(_, _)
build_entity_from_pairs(pairs, components) ==
    IF pairs = <<>> THEN [panic |-> FALSE, components |-> components]
    ELSE LET component == BuildComponent(Head(pairs))
         IN  IF component = None THEN [panic |-> TRUE, components |-> <<>>]
             ELSE build_entity_from_pairs(Tail(pairs), Append(components, Unwrap(component)))

(***************************************************************************)
(* Inputs of the decoders.                                                 *)
(***************************************************************************)
Floats == {-2, -1, 0, 1, 2}
Coords == {-8, 0, 8, 16}
VertexBytes == {0, 1, 255}
Scales == {1, 2}
Translates == {0, 1}
Triples(set) == {<<x, y, z>> : x \in set, y \in set, z \in set}

\* BSP files of one plane, one node, one leaf, one tex-info, one surface
\* edge and one face, with the index fields of the node and the face drawn
\* from small ranges.
BspFiles ==
    {[version |-> version,
      planes |-> <<<<1, 0, 0, 4, 0>>>>,
      nodes |-> <<<<node_plane, child, -1, 0, 0, 0, 0, 0, 0, 0, 1>>>>,
      texture_info |-> <<"texinfo">>,
      faces |-> <<<<face_plane, 0, edge, 1, tex_info, 0, 0, 0, 0, -1>>>>,
      leaves |-> <<"leaf">>,
      surface_edges |-> <<"surfedge">>] :
        version \in {BspVersion, 30}, node_plane \in {0, 1}, child \in {-2, -1, 0, 1},
        face_plane \in {0, 1}, edge \in {0, 1}, tex_info \in {0, 1}}

EntityPairs ==
    {[key |-> "classname", value |-> "info_player_start"],
     [key |-> "message", value |-> "hello"],
     [key |-> "targetname", value |-> "t1"],
     [key |-> "_color", value |-> "red"]}

\* Entity blocks of one or two key/value pairs.
EntityBlocks ==
    {<<p>> : p \in EntityPairs} \cup {<<p, q>> : p \in EntityPairs, q \in EntityPairs}

Decoded(op, input, out) == Some([op |-> op, input |-> input, out |-> out])

DecodeVec3(raw) ==
    /\ decoded' = Decoded("read_vec3", raw, read_vec3(raw).value)
    /\ UNCHANGED <<base_dir, archives, last_read, notAsset>>

DecodeDemEvent(opcode, coords) ==
    LET event == EventIteratorNext(opcode, EventFields(opcode, coords))
    IN  /\ decoded' = Decoded(event.type,
                              <<read_coord(coords[1]), read_coord(coords[2]),
                                read_coord(coords[3])>>,
                              event.origin)
        /\ UNCHANGED <<base_dir, archives, last_read, notAsset>>

DecodeMdlVertex(scale, translate, vertex) ==
    /\ decoded' = Decoded("MdlVertex",
                          [raw |-> <<read_i8(vertex[1]), read_i8(vertex[2]),
                                     read_i8(vertex[3])>>,
                           scale |-> scale, translate |-> translate],
                          MdlVertexPosition(scale \o translate, vertex))
    /\ UNCHANGED <<base_dir, archives, last_read, notAsset>>

DecodeBsp(file) ==
    /\ decoded' = Decoded("Bsp", file, BspFromSlice(file))
    /\ UNCHANGED <<base_dir, archives, last_read, notAsset>>

DecodeEntity(pairs) ==
    /\ decoded' = Decoded("Entity", pairs, build_entity_from_pairs(pairs, <<>>))
    /\ UNCHANGED <<base_dir, archives, last_read, notAsset>>

\* Dem::iter applied to a decoded demo.
DemEmpty == [blocks |-> <<>>]

DecodeDemIter(dem) ==
    /\ decoded' = Decoded("DemIter", dem, DemIter(dem))
    /\ UNCHANGED <<base_dir, archives, last_read, notAsset>>

DecodeNext ==
    \/ \E dem \in DemAssets \cup {DemEmpty} : DecodeDemIter(dem)
    \/ \E raw \in Triples(Floats) : DecodeVec3(raw)
    \/ \E opcode \in {OpDamage, OpSpawnStatic, OpSpawnBaseline}, coords \in Triples(Coords) :
          DecodeDemEvent(opcode, coords)
    \/ \E scale \in Triples(Scales), translate \in Triples(Translates),
          vertex \in Triples(VertexBytes) : DecodeMdlVertex(scale, translate, vertex)
    \/ \E file \in BspFiles : DecodeBsp(file)
    \/ \E pairs \in EntityBlocks : DecodeEntity(pairs)

(***************************************************************************)
(* Bindings (crates/quake-input/src/bindings.rs).  The pressed set is an    *)
(* IndexSet<TimedSource>: a sequence of [source, timestamp] entries in      *)
(* insertion order, one entry per pressed source.                          *)
(***************************************************************************)
Single(source) == [type |-> "single", sources |-> <<source>>, duration |-> 0]
Chord(chord) == [type |-> "chord", sources |-> chord, duration |-> 0]
Sequence(sequence, duration) ==
    [type |-> "sequence", sources |-> sequence, duration |-> duration]

IntentBinding(intent, trigger) == [intent |-> intent, trigger |-> trigger]

\* A variant of matches whose Single arm does not look at the size of the set.
matches_any_size(trigger, timed_sources, t) ==
    LET pressed(s) == \E i \in DOMAIN timed_sources : timed_sources[i].source = s
    IN  CASE trigger.type = "single" -> pressed(trigger.sources[1])
          [] trigger.type = "chord" ->
               \A j \in DOMAIN trigger.sources : pressed(trigger.sources[j])
          [] trigger.type = "sequence" ->
               LET sources_window ==
                     {timed_sources[i].source : i \in
                        {k \in DOMAIN timed_sources :
                            t - timed_sources[k].timestamp < trigger.duration}}
               IN  \A j \in DOMAIN trigger.sources : trigger.sources[j] \in sources_window

\* IntentTrigger::matches, t being the Instant::now() of the Sequence arm.
matches(trigger, timed_sources, t) ==
    LET pressed(s) == \E i \in DOMAIN timed_sources : timed_sources[i].source = s
    IN  CASE trigger.type = "single" ->
               Len(timed_sources) = 1 /\ pressed(trigger.sources[1])
          [] trigger.type = "chord" ->
               \A j \in DOMAIN trigger.sources : pressed(trigger.sources[j])
          [] trigger.type = "sequence" ->
               LET sources_window ==
                     {timed_sources[i].source : i \in
                        {k \in DOMAIN timed_sources :
                            t - timed_sources[k].timestamp < trigger.duration}}
               IN  \A j \in DOMAIN trigger.sources : trigger.sources[j] \in sources_window

\* Bindings::evaluate: find the first binding whose trigger matches.
evaluate(bindings, timed_sources, t) ==
    LET found == {i \in DOMAIN bindings : matches(bindings[i].trigger, timed_sources, t)}
    IN  IF found = {} THEN None
        ELSE Some(bindings[CHOOSE i \in found : \A j \in found : i <= j].intent)

\* The catalogs, pressed sets and evaluation instants of the model.
Sources == {"A", "B", "C"}
PressInstants == {0, 1}
EvaluateInstant == 2

IntentBindings ==
    {IntentBinding("jump", Single("A")),
     IntentBinding("look", Single("B")),
     IntentBinding("fire", Chord(<<"A", "B">>)),
     IntentBinding("use", Chord(<<"C">>)),
     IntentBinding("dash", Sequence(<<"A", "B">>, 2))}

BindingCatalogs ==
    {<<>>} \cup {<<b>> : b \in IntentBindings}
           \cup {<<b, c>> : b \in IntentBindings, c \in IntentBindings}

TimedSources == [source : Sources, timestamp : PressInstants]

PressedSets ==
    {<<>>} \cup {<<x>> : x \in TimedSources}
           \cup {pair \in {<<x, y>> : x \in TimedSources, y \in TimedSources} :
                     pair[1].source # pair[2].source}

Evaluate(bindings, timed_sources) ==
    /\ evaluated' = Some([bindings |-> bindings, timed_sources |-> timed_sources,
                          at |-> EvaluateInstant,
                          out |-> evaluate(bindings, timed_sources, EvaluateInstant)])
    /\ UNCHANGED notInput

InputNext ==
    \E bindings \in BindingCatalogs, timed_sources \in PressedSets :
        Evaluate(bindings, timed_sources)

InputInit == evaluated = None

(***************************************************************************)
(* Specifications.  Each drives one component and leaves the others in     *)
(* their initial state.                                                    *)
(***************************************************************************)
DemIdle ==
    /\ playback = DemPlaybackNew(DemGated)
    /\ total_advanced = 0
    /\ emitted = [i \in 1..Len(playback.events) |-> 0]
    /\ advances = 0

Init ==
    /\ WorldInit /\ DemIdle /\ ConsoleInit /\ ShardInit /\ NetInit /\ ClientInit
    /\ IdInit /\ AssetInit /\ InputInit

Spec == Init /\ [][WorldNext]_vars

InitDem ==
    /\ WorldInit /\ DemInit /\ ConsoleInit /\ ShardInit /\ NetInit /\ ClientInit
    /\ IdInit /\ AssetInit /\ InputInit

DemSpec == InitDem /\ [][DemNext]_vars

DemLiveSpec == InitDem /\ [][DemLiveNext]_vars /\ WF_vars(DemLiveNext)

ReplaySpec == Init /\ [][ReplayNext]_vars

InputSpec == Init /\ [][InputNext]_vars

ConsoleSpec == Init /\ [][ConsoleNext]_vars

ShardSpec == Init /\ [][ShardNext]_vars

NetSpec == Init /\ [][NetNext]_vars

ClientSpec == Init /\ [][ClientNext]_vars

DispatchSpec == Init /\ [][DispatchNext]_vars

IdSpec == Init /\ [][IdNext]_vars

AssetSpec == Init /\ [][AssetNext]_vars

DecodeSpec == Init /\ [][DecodeNext]_vars

\* Weak fairness of ExecuteIterate, its enabling condition written out: the
\* iteration can be taken exactly when the loop has a line to pop.
ExecuteIterateFair ==
    \/ []<>(~(pc = "loop" /\ console.command_buffer # <<>>))
    \/ []<><<ExecuteIterate>>_vars

\* execute() runs on the host's thread, which is not stopped inside the call:
\* the loop goes on iterating and the return is taken when it is reached.
AliasSpec ==
    /\ Init
    /\ [][AliasNext]_vars
    /\ WF_vars(ExecuteReturn)
    /\ ExecuteIterateFair

\* The router thread and every worker thread keep running: each is a thread
\* of its own in a loop (app.rs:41-45, universe.rs:266-282).
StreamSpec ==
    /\ Init
    /\ [][StreamNext]_vars
    /\ WF_vars(RouterStep)
    /\ \A s \in ShardIds : WF_vars(WorkerStep(s))

(***************************************************************************)
(* World server claims (checked under Spec).                               *)
(***************************************************************************)
HasEstablished == active_connections(world.connections) # {}

\* C1: step() returns a snapshot if and only if at least one connection is
\* Established and at least 100 ms have elapsed since the instant the world
\* stored at its previous tick; otherwise it returns none and runs no system.
C1_StepIffEstablishedAndElapsed ==
    IsSome(last_step) =>
        LET s == Unwrap(last_step)
        IN  /\ IsSome(s.snapshot) <=> (s.established /\ s.elapsed >= TickFloor)
            /\ ~IsSome(s.snapshot) => ~s.ran

\* C2: after any sequence of on_join, on_leave, on_play, on_pause, on_resume
\* and on_stop calls the world is Running exactly when at least one recorded
\* connection is Established, and Stopped otherwise.
C2_RunningIffEstablished ==
    (world.state = "Running") <=> HasEstablished

MintedFor(p, c) == p \in DOMAIN minted_for /\ minted_for[p] = c

ConnectionIs(w, c, st) == c \in DOMAIN w.connections /\ w.connections[c] = st

\* C3: for a connection c and the player p minted for it (p's entity being in
\* the world): on_join records c as Suspended, on_play and on_resume set c to
\* Established, on_pause and on_stop set c back to Suspended, and on_leave
\* removes c from the connection table.
C3_ConnectionTransitions ==
    [][\A c \in ConnectionIds :
         /\ OnJoin(c) => ConnectionIs(world', c, "Suspended")
         /\ \A p \in PlayerIds :
              (MintedFor(p, c) /\ player_exists(world.entities, p)) =>
                /\ (OnPlay(c, p) \/ OnResume(c, p)) => ConnectionIs(world', c, "Established")
                /\ (OnPause(c, p) \/ OnStop(c, p)) => ConnectionIs(world', c, "Suspended")
                /\ OnLeave(c, p) => c \notin DOMAIN world'.connections]_vars

\* A connection that its own live player has established, another one that was
\* paused back to Suspended.
C3_Witness ==
    \E c \in ConnectionIds, p \in PlayerIds :
        /\ MintedFor(p, c)
        /\ player_exists(world.entities, p)
        /\ ConnectionIs(world, c, "Established")
        /\ \E c2 \in ConnectionIds \ {c} : ConnectionIs(world, c2, "Suspended")

\* C9: the snapshot returned by a tick carries exactly the events that the
\* systems pushed to the event writer during that tick, in push order.
C9_SnapshotCarriesTickEvents ==
    (IsSome(last_step) /\ IsSome(Unwrap(last_step).snapshot)) =>
        Unwrap(Unwrap(last_step).snapshot).events = Unwrap(last_step).pushed

(***************************************************************************)
(* Demo playback claims (checked under DemSpec).                           *)
(***************************************************************************)
IsTime(i) == playback.events[i].type = "Time"

\* Every Time gate that precedes stream index i has been reached by the
\* cumulative advanced time.
GatesReached(i) ==
    \A j \in 1..(i - 1) :
        IsTime(j) => FromSecsF32(playback.events[j].time) <= total_advanced

\* C7: an event gated by a preceding Time{t} becomes due in the first advance
\* call at which the cumulative advanced time, counting that call's dt,
\* reaches t: after every advance call the events placed in the due queue so
\* far are exactly the non-Time events whose gates the cumulative time reached.
C7_DueWhenCumulativeReachesGate ==
    advances > 0 =>
        \A i \in DOMAIN playback.events :
            ~IsTime(i) => (emitted[i] >= 1 <=> GatesReached(i))

\* C8: across successive advance(dt) calls with dt >= 0 the cursor never
\* decreases and no event already placed in the due queue is placed again.
C8_CursorMonotoneNoReemit ==
    [][/\ playback'.cursor >= playback.cursor
       /\ \A i \in DOMAIN emitted' : emitted'[i] <= 1]_vars

\* Three or more calls have run a stream to its end, the latest of them
\* placing events in the due queue after earlier calls had placed others.
C8_Witness ==
    /\ advances >= 3
    /\ playback.cursor = Len(playback.events)
    /\ playback.due_index # <<>>
    /\ \E i \in DOMAIN emitted :
          emitted[i] = 1 /\ \A k \in DOMAIN playback.due_index : playback.due_index[k] # i

(***************************************************************************)
(* Console claims (checked under ConsoleSpec).                             *)
(***************************************************************************)
CommandName(command_line) == SplitWhitespace(command_line)[1]
CommandArgs(command_line) == Tail(SplitWhitespace(command_line))

\* The kind of dispatch the line at the front of the queue gets.
FrontKind == DispatchKind(console, CommandName(Head(console.command_buffer)))

Names(tr) == [i \in DOMAIN tr |-> tr[i].name]

\* The lines that ran a handler or set a variable, alias references left out.
RECURSIVE Ran(_)
Ran(tr) ==
    IF tr = <<>> THEN <<>>
    ELSE IF Head(tr).kind = "alias" THEN Ran(Tail(tr))
    ELSE <<Head(tr).name>> \o Ran(Tail(tr))

NotAliased(names) == names \cap DOMAIN console.command_aliases = {}

WaitRegistered ==
    /\ Str_wait \in DOMAIN console.command_registry
    /\ console.command_registry[Str_wait] = "wait"

\* C4: the iteration whose handler sets the flag to Suspended leaves the loop
\* having popped only its own line, and the return pops nothing more; the
\* execute() that follows finds the queue as it was left and starts with its
\* first line.  For queue [a, wait, b] the first execute() dispatches a and
\* wait and leaves [b]; the execute() after it runs b.
C4_WaitSuspendsExecute ==
    /\ [][/\ (ExecuteIterate /\ console'.execution_control_flow = "Suspended") =>
               /\ pc' = "exit"
               /\ console'.command_buffer = Tail(console.command_buffer)
          /\ ExecuteReturn => console'.command_buffer = console.command_buffer
          /\ (ExecuteIterate /\ IsSome(left) /\ trace = <<>>) =>
               /\ console.command_buffer = Unwrap(left)
               /\ trace'[1].name = CommandName(Head(Unwrap(left)))]_vars
    /\ []((/\ pc = "idle"
           /\ entry_buffer = <<Str_a, Str_wait, Str_b>>
           /\ WaitRegistered
           /\ NotAliased({Str_a, Str_wait, Str_b})) =>
             /\ Ran(trace) = <<Str_a, Str_wait>>
             /\ console.command_buffer = <<Str_b>>
             /\ left = Some(<<Str_b>>))
    /\ []((/\ pc = "loop"
           /\ left = Some(<<Str_b>>)
           /\ trace # <<>>
           /\ NotAliased({Str_b})) =>
             /\ Ran(trace) = <<Str_b>>
             /\ console.command_buffer = <<>>)

\* The second execute() of the scenario ran b out of the queue the first left.
C4_Witness ==
    /\ pc = "loop"
    /\ left = Some(<<Str_b>>)
    /\ entry_buffer = <<Str_b>>
    /\ Ran(trace) = <<Str_b>>
    /\ console.command_buffer = <<>>

\* C5: an alias reference is replaced at the front of the queue by the lines
\* of the alias body, in body order and ahead of the lines already pending.
\* With alias a = "b; c" and queue [a, d] the lines run in the order b, c, d.
C5_AliasExpandsAtFront ==
    /\ [][(ExecuteIterate /\ FrontKind = "alias") =>
            /\ console'.command_buffer =
                 process_lines(console.command_aliases[CommandName(Head(console.command_buffer))])
                 \o Tail(console.command_buffer)
            /\ pc' = "loop"]_vars
    /\ []((/\ pc = "idle"
           /\ entry_buffer = <<Str_a, Str_d>>
           /\ Str_a \in DOMAIN console.command_aliases
           /\ console.command_aliases[Str_a] = Str_b_c
           /\ NotAliased({Str_b, Str_c, Str_d})) =>
             Ran(trace) = <<Str_b, Str_c, Str_d>>)

C5_Witness ==
    /\ pc = "idle"
    /\ entry_buffer = <<Str_a, Str_d>>
    /\ Names(trace) = <<Str_a, Str_b, Str_c, Str_d>>
    /\ trace[1].kind = "alias"

RECURSIVE SumLen(_)
SumLen(tokens) == IF tokens = <<>> THEN 0 ELSE Len(Head(tokens)) + SumLen(Tail(tokens))

Line(name, arg) == name \o <<" ">> \o arg

\* C6: a line whose identifier is neither an alias nor a registered command
\* stores under that identifier its remaining tokens joined by single spaces,
\* changes no other variable, and the loop goes on.  `health 100` stores
\* health = "100", and `echo hi` with echo unregistered stores echo = "hi".
C6_UnknownIdentifierSetsVariable ==
    [][(ExecuteIterate /\ FrontKind = "variable") =>
         LET command_line == Head(console.command_buffer)
             name == CommandName(command_line)
             args == CommandArgs(command_line)
             after == console'.console_variables
         IN  /\ pc' = "loop"
             /\ DOMAIN after = DOMAIN console.console_variables \cup {name}
             /\ \A other \in DOMAIN console.console_variables \ {name} :
                  after[other] = console.console_variables[other]
             /\ SplitWhitespace(after[name]) = args
             /\ Len(after[name]) = SumLen(args) + (IF args = <<>> THEN 0 ELSE Len(args) - 1)
             /\ command_line = Line(Str_health, Str_100) => after[Str_health] = Str_100
             /\ command_line = Str_echo_hi => after[Str_echo] = Str_hi]_vars

\* The script `alias greet "echo hi"; health 100; greet` has run.
C6_Witness ==
    /\ pc = "idle"
    /\ Names(trace) = <<Str_alias, Str_health, Str_greet, Str_echo>>
    /\ trace[4].kind = "variable"
    /\ Str_echo \in DOMAIN console.console_variables
    /\ console.console_variables[Str_echo] = Str_hi
    /\ console.console_variables[Str_health] = Str_100

(***************************************************************************)
(* Shard router claims (checked under ShardSpec).                          *)
(***************************************************************************)
RECURSIVE OfWorld(_, _)
OfWorld(messages, world_id) ==
    IF messages = <<>> THEN <<>>
    ELSE IF Head(messages).world_id = world_id
         THEN <<Head(messages).seq>> \o OfWorld(Tail(messages), world_id)
         ELSE OfWorld(Tail(messages), world_id)

IsPrefix(a, b) == Len(a) <= Len(b) /\ SubSeq(b, 1, Len(a)) = a

\* C10: the messages of a world are observed only by the worker of shard
\* world_id mod NumShards, in the order the router sent them, and a world is
\* held only by that shard's Universe.
C10_OneWorkerInOrder ==
    \A s \in ShardIds :
        /\ \A world_id \in DOMAIN world_servers[s] : world_id % NumShards = s
        /\ \A world_id \in WorldIds :
             /\ world_id % NumShards # s => OfWorld(observed[s], world_id) = <<>>
             /\ IsPrefix(OfWorld(observed[s], world_id), OfWorld(routed, world_id))

\* Both workers have observed messages, one of them two for a world it holds.
C10_Witness ==
    /\ \A s \in ShardIds : observed[s] # <<>>
    /\ \E s \in ShardIds, world_id \in WorldIds :
         /\ Len(OfWorld(observed[s], world_id)) >= 2
         /\ world_id \in DOMAIN world_servers[s]

(***************************************************************************)
(* Message channel claims (checked under NetSpec).                         *)
(***************************************************************************)
\* C11: the messages one endpoint sends for a given world_id are received by
\* the other endpoint in their send order: of two received messages of one
\* world, the one received first was sent first (a Play sent before a Pause
\* is never received after it).
C11_ReceivedInSendOrder ==
    \A i, j \in 1..Len(recv_order) :
        (i < j /\ recv_order[i].message.world_id = recv_order[j].message.world_id)
            => recv_order[i].seq < recv_order[j].seq

(***************************************************************************)
(* Router claims (checked under StreamSpec).                               *)
(***************************************************************************)
\* C12: a message that a shard has placed on its outbound channel is
\* eventually forwarded to the wire, however much traffic arrives inbound:
\* whenever a shard's outbound queue holds a message, the router later polls
\* that shard's queue (or step has returned an error and the server ended).
C12_OutboundEventuallyForwarded ==
    \A s \in ShardIds :
        (world_queue[s] # <<>>)
            ~> (router = [pc |-> "outbound", shard |-> s] \/ router.pc = "failed")

\* C13: if a shard worker thread terminates by panic the server process
\* terminates with an error: once a worker has panicked, UniverseServer::step
\* eventually returns Err, which ends ServerApp::run; the router never goes
\* on forever beside the dead worker.
C13_WorkerPanicEndsServer ==
    \A s \in ShardIds : (worker[s] = "panicked") ~> (router.pc = "failed")

(***************************************************************************)
(* World client claims (checked under ClientSpec).                         *)
(***************************************************************************)
Accepting(op) ==
    CASE op = "play" -> {"Stopped"}
      [] op = "pause" -> {"Playing"}
      [] op = "resume" -> {"Paused"}
      [] op = "stop" -> {"Playing", "Paused"}

LastMessage(call) == call.after.notifications[Len(call.after.notifications)]

\* C15: after the client has processed a Joined notification it has recorded
\* the notified world_id and player_id and has sent a Play command for them,
\* without a further call from the host: a step() whose last notification
\* was Joined{w, p} leaves w and p in the resources and has sent Play{w, p}.
C15_JoinedRecordsAndPlays ==
    (/\ IsSome(last_call)
     /\ Unwrap(last_call).op = "step"
     /\ Unwrap(last_call).after.notifications # <<>>
     /\ LastMessage(Unwrap(last_call)).kind = "Joined")
        => LET call == Unwrap(last_call)
               m == LastMessage(call)
           IN  /\ call.after.world_id = Some(m.world_id)
               /\ call.after.player_id = Some(m.player_id)
               /\ \E i \in DOMAIN call.sent :
                     call.sent[i] = ClientCommand("Play", m.world_id, m.player_id)

(***************************************************************************)
(* World server claims on load and on commands (checked under Spec).       *)
(***************************************************************************)
\* The entities of `before` that are found again in `after`.
Survivors(before, after) ==
    {i \in DOMAIN before : \E j \in DOMAIN after : after[j] = before[i]}

\* C16: after load(mode) returns successfully, for Demo, Campaign and
\* Deathmatch alike, no entity that was spawned before the call remains in
\* the world.
C16_LoadReplacesEntities ==
    [][\A world_mode \in WorldModes :
          (/\ loads' = loads + 1
           /\ WorldLoad(world, world_mode).ok
           /\ world' = WorldLoad(world, world_mode).world)
              => Survivors(world.entities, world'.entities) = {}]_vars

\* C17: if load fails (asset not found, or a demo without a usable
\* ServerInfo) the world is unchanged: whenever load may be called, a call
\* that returns Err leaves the world exactly as it was before the call.
C17_FailedLoadLeavesWorld ==
    loads < MaxLoads =>
        \A world_mode \in WorldModes :
            ~WorldLoad(world, world_mode).ok => WorldLoad(world, world_mode).world = world

SameMembership(w, after) ==
    /\ after.connections = w.connections
    /\ after.state = w.state
    /\ after.entities = w.entities

\* C18: a Leave, Play, Pause, Resume or Stop naming a PlayerId with no player
\* entity in the world is ignored: the connection table, the execution state
\* and the entity set are as before the command.
C18_UnknownPlayerIgnored ==
    \A c \in ConnectionIds, p \in PlayerIds :
        ~player_exists(world.entities, p) =>
            /\ SameMembership(world, on_leave(world, c, p))
            /\ SameMembership(world, on_play(world, c, p))
            /\ SameMembership(world, on_pause(world, c, p))
            /\ SameMembership(world, on_resume(world, c, p))
            /\ SameMembership(world, on_stop(world, c, p))

\* C19: a Pause or Stop received while the world is Stopped is ignored: the
\* execution state and the connection table are as before, no connection is
\* added or changed.
C19_PauseStopIgnoredWhenStopped ==
    world.state = "Stopped" =>
        \A c \in ConnectionIds, p \in PlayerIds :
            /\ on_pause(world, c, p).state = world.state
            /\ on_pause(world, c, p).connections = world.connections
            /\ on_stop(world, c, p).state = world.state
            /\ on_stop(world, c, p).connections = world.connections

(***************************************************************************)
(* Console claim on alias expansion (checked under AliasSpec).             *)
(***************************************************************************)
\* C20: for every pending queue and every alias map, including an alias
\* whose body names the alias itself directly or through other aliases,
\* execute() returns after finitely many dispatch steps: a call that is in
\* its loop eventually leaves execute() (by return, or by a handler's panic).
C20_ExecuteReturns == (pc = "loop") ~> (pc \in {"idle", "panicked"})

(***************************************************************************)
(* Console claims on exec, the dispatch order, variable names and the      *)
(* comment cut.                                                            *)
(***************************************************************************)
\* The line at the front of the queue is `exec <name>` for the exec built-in
\* and a name the catalog does not resolve.
FrontIsMissingExec ==
    LET command_line == Head(console.command_buffer)
        name == CommandName(command_line)
        args == CommandArgs(command_line)
    IN  /\ FrontKind = "command"
        /\ console.command_registry[name] = "exec"
        /\ args # <<>>
        /\ ByNameScript(args[1]) = None

\* C21: dispatching `exec <name>` for a name the catalog cannot resolve only
\* consumes that line: the queue loses its front line and gains none, the
\* variables, aliases, registry and flag are unchanged, nothing panics, and
\* the loop goes on with the next queued line.
C21_MissingExecOnlyConsumesLine ==
    [][(ExecuteIterate /\ FrontIsMissingExec) =>
         /\ console' = [console EXCEPT !.command_buffer = Tail(@)]
         /\ pc' = "loop"]_vars

\* `exec nofile` was dispatched and the line after it was dispatched too.
C21_Witness ==
    /\ pc = "idle"
    /\ \E i \in 1..(Len(trace) - 1) :
          /\ trace[i].name = Str_exec
          /\ trace[i].kind = "command"
          /\ trace[i].args = <<Str_nofile>>

\* C22: dispatch tries alias, then registered command, then variable.  A name
\* that is an alias is expanded at the front of the queue and nothing else of
\* the console changes, also when the name is registered (its handler is not
\* invoked); a line whose identifier is registered never changes a variable.
C22_DispatchOrder ==
    [][ExecuteIterate =>
         LET name == CommandName(Head(console.command_buffer))
         IN  /\ name \in DOMAIN console.command_aliases =>
                  /\ console' = [console EXCEPT !.command_buffer =
                                    process_lines(console.command_aliases[name]) \o Tail(@)]
                  /\ pc' = "loop"
             /\ name \in DOMAIN console.command_registry =>
                  console'.console_variables = console.console_variables]_vars

\* wait, registered as the built-in and aliased to `health 50`, was expanded
\* as an alias: the body ran, the line after it ran, and execute() returned
\* with an empty queue.
C22_Witness ==
    /\ pc = "idle"
    /\ WaitRegistered
    /\ console.command_buffer = <<>>
    /\ \E i \in 1..(Len(trace) - 2) :
          /\ trace[i].name = Str_wait
          /\ trace[i].kind = "alias"
          /\ trace[i + 1].name = Str_health
          /\ trace[i + 2].name = Str_d

\* C23: variable names are case-folded, so a value stored under `Health`,
\* by set_variable or by a dispatched line, is what a read of `health`
\* returns.
C23_VariableNamesCaseFolded ==
    /\ \A value \in {Str_100, Str_50} :
          get_variable(set_variable(console, Str_Health, value), Str_health) = Some(value)
    /\ (/\ trace # <<>>
        /\ trace[Len(trace)].kind = "variable"
        /\ trace[Len(trace)].name = Str_Health) =>
          get_variable(console, Str_health) = Some(JoinSpace(trace[Len(trace)].args))

\* The text of a line that precedes its first "//", trimmed.
ClaimedLine(line) ==
    LET cut == FindComment(line)
    IN  Trim(IF IsSome(cut) THEN Prefix(line, Unwrap(cut)) ELSE line)

ClaimedLines(text) ==
    LET raw == Lines(text)
    IN  FilterNonEmpty([i \in DOMAIN raw |-> ClaimedLine(raw[i])])

\* C24: append_script and prepend_script queue, for every line of the text,
\* the trimmed text before the first "//" and nothing for a line that is then
\* empty, whether or not the line is indented.
C24_QueuedLinesAreCommentStripped ==
    [][\A text \in DispatchScripts :
          /\ AppendScript(text) =>
               console'.command_buffer = console.command_buffer \o ClaimedLines(text)
          /\ PrependScript(text) =>
               console'.command_buffer = ClaimedLines(text) \o console.command_buffer]_vars

(***************************************************************************)
(* Identifier generators (checked under IdSpec).                           *)
(***************************************************************************)
\* C25: any two calls to the PlayerId generator, and any two calls to the
\* WorldId generator, from any threads in any interleaving return different
\* identifiers.
C25_IdentifiersUnique ==
    \A i, j \in DOMAIN issued :
        (i # j /\ issued[i].generator = issued[j].generator) =>
            issued[i].id # issued[j].id

\* Two threads called one generator and a third call went to the other.
C25_Witness ==
    /\ Len(issued) = MaxIds
    /\ \E i, j, k \in DOMAIN issued :
          /\ issued[i].generator = "PlayerId"
          /\ issued[j].generator = "PlayerId"
          /\ issued[i].thread # issued[j].thread
          /\ issued[k].generator = "WorldId"

(***************************************************************************)
(* Asset catalog (checked under AssetSpec).                                *)
(***************************************************************************)
\* The .pak files that hold the name.
Holders(name) == {file \in DOMAIN base_dir.paks : name \in DOMAIN base_dir.paks[file]}

\* The source the resolution order names: the loose regular file, or else
\* the holder that is last in lexicographic file name order, or else none.
Resolved(name) ==
    IF name \in DOMAIN base_dir.files /\ base_dir.files[name].kind = "file"
    THEN Some(base_dir.files[name].content)
    ELSE IF Holders(name) = {} THEN None
    ELSE LET file == CHOOSE f \in Holders(name) :
                        \A g \in Holders(name) \ {f} : LexLess(g, f)
         IN  Some(base_dir.paks[file][name])

\* C26: by_name(name) resolves in a fixed order: a regular file base_dir/name
\* is the result and shadows every archive entry of the name; otherwise the
\* entry of the first archive in reverse-lexicographic file name order that
\* has the name; the read fails when no source has the name.  A read that
\* succeeds returns the resolved content, and a read fails only if there is
\* no source or the resolved content does not decode.
C26_ReadResolutionOrder ==
    IsSome(last_read) =>
        LET call == Unwrap(last_read)
            source == Resolved(call.name)
        IN  /\ call.result.ok => source = Some(call.result.content)
            /\ ~call.result.ok =>
                  \/ source = None
                  \/ ~from_bytes(call.type, Unwrap(source)).ok

(***************************************************************************)
(* Decoder claims (checked under DecodeSpec).                              *)
(***************************************************************************)
\* The normalized-basis image of a native vector.
Normalized(v) == <<v[1], v[3], -v[2]>>

\* C27: every 3-component vector a decoder yields from native-basis bytes is
\* (x, z, -y) of the raw (x, y, z) in file order: the float vectors of
\* read_vec3 (BSP, MDL) and the origin of the demo events Damage, SpawnStatic
\* and SpawnBaseline.
C27_VectorsAreNormalized ==
    (/\ IsSome(decoded)
     /\ Unwrap(decoded).op \in {"read_vec3", "Damage", "SpawnStatic", "SpawnBaseline"}) =>
        Unwrap(decoded).out = Normalized(Unwrap(decoded).input)

\* C28: a decoded MDL vertex position is the normalized image of
\* p = raw * scale + translate taken in file order: for raw (x, y, z), scale
\* (sx, sy, sz) and translate (tx, ty, tz) it is
\* (x*sx + tx, z*sz + tz, -(y*sy + ty)).
C28_MdlVertexDecompressed ==
    (IsSome(decoded) /\ Unwrap(decoded).op = "MdlVertex") =>
        LET vertex == Unwrap(decoded).input
        IN  Unwrap(decoded).out =
                Normalized(Add3(Mul3(vertex.raw, vertex.scale), vertex.translate))

InRange(index, array) == index >= 0 /\ index < Len(array)

\* C29: in every BSP that decode returns successfully each index field points
\* inside the array it refers to: a node's plane and its child nodes or
\* leaves, a face's plane, its run of surface edges and its tex-info.
C29_BspIndicesInRange ==
    (IsSome(decoded) /\ Unwrap(decoded).op = "Bsp" /\ Unwrap(decoded).out.ok) =>
        LET bsp == Unwrap(decoded).out
        IN  /\ \A i \in DOMAIN bsp.nodes :
                  /\ InRange(bsp.nodes[i].plane_index, bsp.planes)
                  /\ \A c \in 1..2 :
                        LET child == bsp.nodes[i].children[c]
                        IN  IF child.type = "Leaf" THEN InRange(child.index, bsp.leaves)
                            ELSE InRange(child.index, bsp.nodes)
            /\ \A i \in DOMAIN bsp.faces :
                  /\ InRange(bsp.faces[i].plane_index, bsp.planes)
                  /\ InRange(bsp.faces[i].tex_info_index, bsp.texture_info)
                  /\ bsp.faces[i].edge_index + bsp.faces[i].edge_count
                        <= Len(bsp.surface_edges)

\* C30: an entity block with a key outside the recognized set still decodes:
\* nothing aborts, every recognized pair gives its component and every
\* unrecognized pair is kept with its key and value.
C30_UnknownKeysCollected ==
    (/\ IsSome(decoded)
     /\ Unwrap(decoded).op = "Entity"
     /\ \E i \in DOMAIN Unwrap(decoded).input :
           Unwrap(decoded).input[i].key \notin RecognizedKeys) =>
        LET pairs == Unwrap(decoded).input
            out == Unwrap(decoded).out
        IN  /\ ~out.panic
            /\ Len(out.components) = Len(pairs)
            /\ \A i \in DOMAIN pairs :
                  IF pairs[i].key \in RecognizedKeys
                  THEN Some(out.components[i]) = BuildComponent(pairs[i])
                  ELSE out.components[i] = [key |-> pairs[i].key, value |-> pairs[i].value]

(***************************************************************************)
(* Demo stream claims (checked under DecodeSpec and Spec).                 *)
(***************************************************************************)
\* The stream the blocks of a demo stand for: for each block in order, one
\* SetAngle carrying the block's view angles, then the block's events.
BlockStream(dem) ==
    LET F[i \in 0..Len(dem.blocks)] ==
          IF i = 0 THEN <<>>
          ELSE F[i - 1] \o <<SetAngle(dem.blocks[i].angles)>> \o dem.blocks[i].events
    IN  F[Len(dem.blocks)]

\* C31: iterating a demo yields, at the start of every block including the
\* first, one synthetic SetAngle carrying that block's view angles, followed
\* by the block's opcodes in order: N blocks give N synthetic SetAngle events.
C31_SetAngleAtEveryBlock ==
    (IsSome(decoded) /\ Unwrap(decoded).op = "DemIter") =>
        Unwrap(decoded).out = BlockStream(Unwrap(decoded).input)

\* The stream positions that hold a ServerInfo event.
ServerInfos(events) == {i \in DOMAIN events : events[i].type = "ServerInfo"}

FirstServerInfo(events) ==
    events[CHOOSE i \in ServerInfos(events) : \A j \in ServerInfos(events) : i <= j]

\* C32: load(Demo) takes the first ServerInfo event found in the demo's event
\* stream as the world map manifest, and succeeds for every demo whose stream
\* contains a ServerInfo event, whether or not other events precede it.
C32_LoadUsesFirstServerInfo ==
    [][\A world_mode \in WorldModes :
          (/\ world_mode.kind = "Demo"
           /\ IsSome(ByNameDem(world_mode.path))
           /\ ServerInfos(DemIter(Unwrap(ByNameDem(world_mode.path)))) # {}
           /\ Load(world_mode))
              => /\ WorldLoad(world, world_mode).ok
                 /\ world'.resources.world_map =
                       Some(FirstServerInfo(
                              DemIter(Unwrap(ByNameDem(world_mode.path)))).map_path)]_vars

(***************************************************************************)
(* Replay claims (checked under ReplaySpec).                               *)
(***************************************************************************)
\* The events the tick that has just run found due.
DueEvents(w) == Unwrap(w.resources.playback).due_events

\* The step taken is a tick of a world that replays a demo.
ReplayTick ==
    /\ Step
    /\ Unwrap(last_step').ran
    /\ world.systems = "replay"

Axis(event, a) ==
    CASE a = 1 -> event.origin1
      [] a = 2 -> event.origin2
      [] a = 3 -> event.origin3

\* The positions of the due UpdateEntity events that name e and carry axis a.
UpdatesOf(due, e, a) ==
    {i \in DOMAIN due : /\ due[i].type = "UpdateEntity"
                        /\ due[i].entity_id = e
                        /\ IsSome(Axis(due[i], a))}

Latest(positions) == CHOOSE i \in positions : \A j \in positions : j <= i

Baselines(due) == {i \in DOMAIN due : due[i].type = "SpawnBaseline"}

\* C33: applying UpdateEntity changes only the position axes whose fields are
\* present in the event: over a tick, an axis of an entity changes only to
\* the value of the latest due update that names the entity and carries that
\* axis, absent axes and all other entities keep their values, and an update
\* for an id that has no entity creates nothing (entities are created by the
\* due SpawnBaseline events only).
C33_UpdateChangesPresentAxesOnly ==
    [][ReplayTick =>
          LET due == DueEvents(world')
          IN  /\ Len(world'.entities) = Len(world.entities) + Cardinality(Baselines(due))
              /\ \A k \in DOMAIN world.entities :
                    LET old == world.entities[k]
                        new == world'.entities[k]
                    IN  /\ new.entity_id = old.entity_id
                        /\ new.player_id = old.player_id
                        /\ IsSome(new.transform) <=> IsSome(old.transform)
                        /\ IsSome(old.transform) =>
                              \A a \in 1..3 :
                                 LET e == Unwrap(old.entity_id)
                                     ups == IF k = FindTransform(world.entities, e)
                                            THEN UpdatesOf(due, e, a) ELSE {}
                                 IN  Unwrap(new.transform)[a] =
                                       IF ups = {} THEN Unwrap(old.transform)[a]
                                       ELSE Unwrap(Axis(due[Latest(ups)], a))]_vars

\* A tick has applied an update that carries some axes and not others to an
\* entity, next to another entity with a position, while an update naming an
\* id without an entity was due as well.
C33_Witness ==
    /\ IsSome(last_step) /\ Unwrap(last_step).ran /\ world.systems = "replay"
    /\ \E i \in DOMAIN DueEvents(world), k \in DOMAIN world.entities :
          LET u == DueEvents(world)[i]
          IN  /\ u.type = "UpdateEntity"
              /\ ~IsSome(u.origin1) /\ IsSome(u.origin2)
              /\ world.entities[k].entity_id = Some(u.entity_id)
              /\ Unwrap(world.entities[k].transform)[2] = Unwrap(u.origin2)
              /\ Unwrap(world.entities[k].transform)[1] # 0
              /\ \E j \in DOMAIN world.entities :
                    /\ j # k
                    /\ IsSome(world.entities[j].transform)
                    /\ world.entities[j].entity_id # Some(u.entity_id)
    /\ \E i \in DOMAIN DueEvents(world) :
          /\ DueEvents(world)[i].type = "UpdateEntity"
          /\ \A k \in DOMAIN world.entities :
                world.entities[k].entity_id # Some(DueEvents(world)[i].entity_id)

\* C37: if a SpawnBaseline for entity id e and a later UpdateEntity for the
\* same id are due in the same tick, the entity's position after that tick
\* reflects the update: every axis the later updates carry has the value of
\* the latest of them.
C37_UpdateAfterSpawnInSameTick ==
    [][ReplayTick =>
          LET due == DueEvents(world')
          IN  \A i \in Baselines(due) :
                 LET e == due[i].entity_id
                     later(a) == {j \in UpdatesOf(due, e, a) : j > i}
                 IN  FindTransform(world.entities, e) = 0 =>
                       \E k \in DOMAIN world'.entities :
                          /\ world'.entities[k].entity_id = Some(e)
                          /\ IsSome(world'.entities[k].transform)
                          /\ \A a \in 1..3 :
                                later(a) # {} =>
                                  Unwrap(world'.entities[k].transform)[a] =
                                    Unwrap(Axis(due[Latest(later(a))], a))]_vars

(***************************************************************************)
(* Binding claim (checked under InputSpec).                                *)
(***************************************************************************)
PressedSources(timed_sources) ==
    {timed_sources[i].source : i \in DOMAIN timed_sources}

\* The match the catalog's description gives a Single and a Chord trigger; a
\* Sequence trigger matches as the code decides.
TriggerMatches(trigger, timed_sources, t) ==
    CASE trigger.type = "single" ->
           PressedSources(timed_sources) = {trigger.sources[1]}
      [] trigger.type = "chord" ->
           {trigger.sources[j] : j \in DOMAIN trigger.sources}
              \subseteq PressedSources(timed_sources)
      [] OTHER -> matches(trigger, timed_sources, t)

\* C34: evaluate returns the intent of the first binding in declaration order
\* whose trigger matches the pressed set, or none when no trigger matches; a
\* Single trigger matches only when the pressed set holds exactly one source
\* and it is the trigger's, a Chord trigger when all of its sources are
\* pressed, extras allowed.
C34_FirstMatchingBindingWins ==
    IsSome(evaluated) =>
        LET call == Unwrap(evaluated)
            hit(i) == TriggerMatches(call.bindings[i].trigger, call.timed_sources, call.at)
        IN  /\ (\A i \in DOMAIN call.bindings : ~hit(i)) => call.out = None
            /\ \A i \in DOMAIN call.bindings :
                  (hit(i) /\ \A j \in 1..(i - 1) : ~hit(j))
                      => call.out = Some(call.bindings[i].intent)

\* The second binding won because the first, a Single, did not match a
\* pressed set of two sources that holds its source; the winner is a Chord
\* matched with an extra source pressed.
C34_Witness ==
    /\ IsSome(evaluated)
    /\ LET call == Unwrap(evaluated)
       IN  /\ Len(call.bindings) = 2
           /\ call.bindings[1].trigger.type = "single"
           /\ call.bindings[1].trigger.sources[1] \in PressedSources(call.timed_sources)
           /\ call.bindings[2].trigger = Chord(<<"C">>)
           /\ Len(call.timed_sources) = 2
           /\ call.out = Some(call.bindings[2].intent)

(***************************************************************************)
(* Shard claim on failed spawns (checked under ShardSpec).                 *)
(***************************************************************************)
\* The worker of shard s, which hosts at least one world, takes a Spawn whose
\* map or demo fails to load.
FailedSpawnAt(s) ==
    /\ WorkerReceive(s)
    /\ Head(universe_queue[s]).kind = "Spawn"
    /\ ~WorldServerSpawn(Head(universe_queue[s]).world_mode).ok
    /\ DOMAIN world_servers[s] # {}

\* C35: a Spawn command whose map or demo fails to load does not stop the
\* shard worker that handled it: the worker is still running afterwards and
\* the worlds the shard already hosted are as they were, so they go on
\* processing commands and emitting snapshots.
C35_FailedSpawnKeepsWorker ==
    [][\A s \in ShardIds :
          FailedSpawnAt(s) => /\ worker'[s] = "running"
                              /\ world_servers'[s] = world_servers[s]]_vars

(***************************************************************************)
(* World membership claim (checked under Spec).                            *)
(***************************************************************************)
\* The live player entities whose PlayerId the on_join of c minted.
PlayersOf(w, c) ==
    {k \in DOMAIN w.entities :
        /\ IsSome(w.entities[k].player_id)
        /\ MintedFor(Unwrap(w.entities[k].player_id), c)}

\* C36: in every reachable state of a world, recorded connections and player
\* entities correspond one-to-one: each recorded connection has exactly one
\* live player entity, minted by that connection's on_join, and every player
\* entity belongs to a recorded connection.
C36_ConnectionsMatchPlayers ==
    /\ \A c \in DOMAIN world.connections : Cardinality(PlayersOf(world, c)) = 1
    /\ \A k \in DOMAIN world.entities :
          IsSome(world.entities[k].player_id) =>
              \E c \in DOMAIN world.connections : k \in PlayersOf(world, c)


(***************************************************************************)
(* Leaving and joining again (WorldClient::on_left, on_joined, play).      *)
(***************************************************************************)
\* The positions of the Joined and Left messages of a batch.
Memberships(messages) ==
    {i \in 1..Len(messages) : messages[i].kind \in {"Joined", "Left"}}

\* The batch ends the client's membership of a world and then starts one:
\* its last Joined or Left message is a Joined, and the client has left
\* before it, in this batch or in an earlier one.
LeavesAndJoins(c, messages) ==
    /\ Memberships(messages) # {}
    /\ LET last == CHOOSE i \in Memberships(messages) :
                       \A j \in Memberships(messages) : j <= i
       IN  /\ messages[last].kind = "Joined"
           /\ \/ ~IsSome(c.world_id)
              \/ \E i \in 1..(last - 1) : messages[i].kind = "Left"

\* C38: A client that leaves a world while Playing or Paused can play again
\* after joining again: once step has processed the Left notification and
\* then a new Joined notification, play() succeeds.
C38_PlayAfterRejoin ==
    [][(ClientStep /\ client.state \in {"Playing", "Paused"}
            /\ LeavesAndJoins(client, inbox))
        => play(client').ok]_vars


(***************************************************************************)
(* Playback that is kept advancing (DemPlayback::advance).                 *)
(***************************************************************************)
\* The due queue holds events of the stream, in stream order, that lie
\* behind the events handed out before.
DueInStreamOrder(before, after) ==
    /\ Len(after.due_index) = Len(after.due_events)
    /\ \A k \in DOMAIN after.due_index :
        /\ after.due_index[k] > before.cursor
        /\ after.due_index[k] <= after.cursor
        /\ after.due_events[k] = after.events[after.due_index[k]]
        /\ k > 1 => after.due_index[k - 1] < after.due_index[k]

AllPlacedOnce ==
    \A i \in DOMAIN emitted :
        emitted[i] = IF playback.events[i].type = "Time" THEN 0 ELSE 1

\* C39: If every advance is called with dt > 0, every event of the demo
\* stream that is not a Time event is eventually placed in the due queue,
\* exactly once and in stream order, and no Time event is ever placed in
\* the due queue.
C39_EveryEventEventuallyDue ==
    /\ [](\A i \in DOMAIN emitted :
            /\ emitted[i] <= 1
            /\ playback.events[i].type = "Time" => emitted[i] = 0)
    /\ [][DueInStreamOrder(playback, playback')]_vars
    /\ <>[]AllPlacedOnce

\* A stream with a gate that opens late has been played to its end.
C39_Witness ==
    /\ AllPlacedOnce
    /\ playback.cursor = Len(playback.events)
    /\ \E i \in DOMAIN playback.events :
        /\ playback.events[i].type = "Time"
        /\ playback.events[i].time >= 500
        /\ \E j \in DOMAIN playback.events : j > i /\ emitted[j] = 1


(***************************************************************************)
(* The delta time of a tick (WorldServer::step, dem_advance_playback).     *)
(***************************************************************************)
\* The step about to be taken passes the tick floor and runs the systems.
Ticks == WorldStep(world, now).ran

\* C40: The delta_time handed to the systems on a tick is measured from the
\* previous tick, or from the first step attempted while Running, and it
\* includes every interval since then during which the world was Stopped:
\* after a pause of length P the first tick's delta_time is at least P, and
\* the playback time of a demo that has not ended advances by delta_time,
\* the paused interval included.
C40_DeltaTimeSpansPause ==
    [][(Step /\ Ticks) =>
        LET delta_time == Unwrap(world'.resources.delta_time)
        IN  /\ IsSome(tick_log.origin)
            /\ delta_time = now - Unwrap(tick_log.origin)
            /\ delta_time >= tick_log.stopped
            /\ tick_log'.paused = tick_log.stopped
            /\ (world.systems = "replay"
                  /\ Unwrap(world.resources.playback).cursor
                       < Len(Unwrap(world.resources.playback).events))
               => Unwrap(world'.resources.playback).duration
                    = Unwrap(world.resources.playback).duration + delta_time]_vars

\* A tick whose interval held a pause and some running time, in a replay
\* whose playback time the tick has advanced.
C40_Witness ==
    /\ IsSome(last_step)
    /\ Unwrap(last_step).ran
    /\ tick_log.paused >= TickFloor
    /\ Unwrap(world.resources.delta_time) > tick_log.paused
    /\ world.systems = "replay"
    /\ Unwrap(world.resources.playback).duration >= Unwrap(world.resources.delta_time)

====
